---- MODULE Spec2Model ----
(***************************************************************************)
(* Model of the attendance scanner (src/src/pages/AttendanceScanner.tsx)   *)
(* and of the face library it calls (src/src/lib/face.ts).                 *)
(*                                                                         *)
(* React semantics used throughout.  The component is mounted with         *)
(* createRoot (React 18): the state updates a handler or an async          *)
(* continuation makes are batched and committed by one render that runs    *)
(* before the next handler, so every action below ends with the render it  *)
(* causes.  A render re-creates the handlers with the committed state; the *)
(* scan loop is created by a useEffect and is re-created only when one of  *)
(* its dependencies changed, so the loop (and the tracker functions it     *)
(* closes over) reads the state of the render that created its effect.     *)
(*                                                                         *)
(* Units.  Positions are kept in 1/60 pixel so that the mean of up to five *)
(* positions is exact; descriptors are vectors of tenths; distances are    *)
(* compared by their squares.                                              *)
(***************************************************************************)
EXTENDS Integers, Sequences, FiniteSets, TLC

(***************************************************************************)
(* Bounds of the model.                                                    *)
(***************************************************************************)
\* detection calls started in one page session
MaxDetections == 2
\* detection calls that may be pending at the same time
MaxInFlight == 2
\* page loads of the scanner for one class and date
MaxSessions == 2
\* detection calls started in the tracker scenarios, one at a time
TrackDetections == 5
\* detection calls started in the end-to-end scenario
ScenarioDetections == 8
\* clicks in the Manual Override dialog in one behaviour
MaxToggles == 2
\* clicks in the Manual Override dialog where one mark goes round
MaxMarks == 3
MaxSwitches == 2
MaxLoadCalls == 7
MaxChecks == 3
MaxIntervals == 2
MaxPersists == 2
MaxEnrollments == 2
\* elements of the descriptors given to the codec
MaxFloats == 3
\* elements of the descriptors given to computeEuclideanDistance
MaxDims == 2
\* entries of the galleries given to findBestMatch
MaxGallery == 3

(***************************************************************************)
(* Data                                                                    *)
(***************************************************************************)
\* students that may be enrolled in the class (enrollments[i].students.id)
Students == {1, 2}

\* ids of provisional tracks, `face_${Date.now()}_${index}`:
\* t is the time of the detection pass, index the face's place in the frame
FaceId(t, index) == 100 + 10 * t + index

Px(n) == n * 60

\* stored descriptor of each student (students.facial_id, decoded), in tenths
Descriptor(s) == IF s = 1 THEN <<0, 0>> ELSE <<10, 0>>

\* descriptors the detector may return
dA == <<3, 0>>
dB == <<10, 4>>
dUnknown == <<5, 5>>

Box(x, y, w, h) == [x |-> Px(x), y |-> Px(y), width |-> Px(w), height |-> Px(h)]

\* detected faces: box, descriptor, optional landmarks (nose: <<>> when missing)
Face(x, d) == [box |-> Box(x, 0, 100, 100), descriptor |-> d, nose |-> <<>>]
SmallFace == [box |-> Box(0, 0, 10, 10), descriptor |-> dA, nose |-> <<>>]

Min(a, b) == IF a < b THEN a ELSE b
Max(a, b) == IF a > b THEN a ELSE b

RECURSIVE SumSeq(_)
SumSeq(s) == IF s = <<>> THEN 0 ELSE Head(s) + SumSeq(Tail(s))

LastN(s, n) == IF Len(s) <= n THEN s ELSE SubSeq(s, Len(s) - n + 1, Len(s))

(***************************************************************************)
(* face.ts                                                                 *)
(***************************************************************************)
\* the number that is not one: what arithmetic on `undefined` yields.  A
\* square of a distance is never negative, so -1 stands for it.
NaN == 0 - 1

\* x < y and x <= y on numbers: false when one of them is NaN
Less(x, y) == x # NaN /\ y # NaN /\ x < y
LessEq(x, y) == x # NaN /\ y # NaN /\ x <= y

\* square of computeEuclideanDistance, in hundredths: the loop runs over the
\* indices of a; b[i] is undefined past the end of b, and the sum is NaN then
computeEuclideanDistance(a, b) ==
    IF Len(a) > Len(b) THEN NaN
    ELSE SumSeq([i \in 1..Len(a) |-> (a[i] - b[i]) * (a[i] - b[i])])

\* the for loop of findBestMatch; best is <<>> (null) or <<[id, distance]>>
RECURSIVE findBestMatchFrom(_, _, _)
findBestMatchFrom(query, knowns, best) ==
    IF knowns = <<>> THEN best
    ELSE LET k == Head(knowns)
             dist == computeEuclideanDistance(query, k.descriptor)
             nb == IF best = <<>> \/ Less(dist, best[1].distance)
                   THEN <<[id |-> k.id, distance |-> dist]>> ELSE best
         IN findBestMatchFrom(query, Tail(knowns), nb)

\* a matcher that accepts below the threshold only
findBestMatchBelow(query, knowns, threshold2) ==
    LET best == findBestMatchFrom(query, knowns, <<>>)
    IN IF knowns = <<>> THEN <<>>
       ELSE IF best = <<>> THEN <<>>
       ELSE IF Less(best[1].distance, threshold2) THEN best ELSE <<>>

\* threshold2 is the square of the threshold, in hundredths;
\* the result is <<>> (null) or <<[id, distance]>>
findBestMatch(query, knowns, threshold2) ==
    LET best == findBestMatchFrom(query, knowns, <<>>)
    IN IF knowns = <<>> THEN <<>>
       ELSE IF best = <<>> THEN <<>>
       ELSE IF LessEq(best[1].distance, threshold2) THEN best ELSE <<>>

\* a threshold of 0.2, squared, in hundredths
LoopThresholdTight == 2 * 2

\* the threshold the scan loop passes, 0.5, squared, in hundredths
LoopThreshold2 == 5 * 5

(***************************************************************************)
(* face.ts: the codec.  An element of a Float32Array is kept as the sign,  *)
(* the exponent and the mantissa that its 32 bits store; a text is the     *)
(* sequence of its characters, each the place of the character in the      *)
(* base64 alphabet, Pad for '='.                                           *)
(***************************************************************************)
Float32(sign, exponent, mantissa) == [s |-> sign, e |-> exponent, m |-> mantissa]

\* 0, 0.1, -0.5, the largest finite float, a NaN, +Infinity
Zero == Float32(0, 0, 0)
Tenth == Float32(0, 123, 5033165)
MinusHalf == Float32(1, 126, 0)
MaxFinite == Float32(0, 254, 8388607)
QuietNaN == Float32(0, 255, 4194304)
Infinity == Float32(0, 255, 0)

\* isFinite(val) && !isNaN(val): the exponent bits are not all ones
IsValid(w) == w.e # 255

\* byte k of the four bytes that store an element, least significant first
\* (the order of the platform)
ByteLittleEndian(w, k) ==
    CASE k = 0 -> w.m % 256
      [] k = 1 -> (w.m \div 256) % 256
      [] k = 2 -> (w.e % 2) * 128 + w.m \div 65536
      [] OTHER -> w.s * 128 + w.e \div 2

\* the bytes in the other order
ByteBigEndian(w, k) == ByteLittleEndian(w, 3 - k)

\* byte k of an element as a Uint8Array on its buffer shows it
ByteOf(w, k) == ByteLittleEndian(w, k)

\* new Uint8Array(descriptor.buffer), line 408, of an array that spans its buffer
BytesOf(floats) ==
    [i \in 1..(4 * Len(floats)) |-> ByteOf(floats[(i - 1) \div 4 + 1], (i - 1) % 4)]

\* new Float32Array(bytes.buffer), line 451, for a length that divides by 4
FloatsOf(bytes) ==
    [i \in 1..(Len(bytes) \div 4) |->
        Float32(bytes[4 * i] \div 128,
                (bytes[4 * i] % 128) * 2 + bytes[4 * i - 1] \div 128,
                (bytes[4 * i - 1] % 128) * 65536 + bytes[4 * i - 2] * 256
                   + bytes[4 * i - 3])]

Pad == 64

\* btoa of the string whose char codes are `bytes`
btoa(bytes) ==
    LET n == Len(bytes)
        byte(j) == IF j <= n THEN bytes[j] ELSE 0
        char(g, pos) ==
            CASE pos = 0 -> byte(3 * g + 1) \div 4
              [] pos = 1 -> (byte(3 * g + 1) % 4) * 16 + byte(3 * g + 2) \div 16
              [] pos = 2 -> IF 3 * g + 2 > n THEN Pad
                            ELSE (byte(3 * g + 2) % 16) * 4 + byte(3 * g + 3) \div 64
              [] OTHER   -> IF 3 * g + 3 > n THEN Pad ELSE byte(3 * g + 3) % 64
    IN [j \in 1..(4 * ((n + 2) \div 3)) |-> char((j - 1) \div 4, (j - 1) % 4)]

\* atob: the char codes of the decoded string, or a DOMException for a text
\* that is no base64
atob(text) ==
    LET data == SelectSeq(text, LAMBDA ch : ch # Pad)
        m == Len(data)
        char(j) == IF j <= m THEN data[j] ELSE 0
        byte(g, k) ==
            CASE k = 0 -> char(4 * g + 1) * 4 + char(4 * g + 2) \div 16
              [] k = 1 -> (char(4 * g + 2) % 16) * 16 + char(4 * g + 3) \div 4
              [] OTHER -> (char(4 * g + 3) % 4) * 64 + char(4 * g + 4)
        n == (m \div 4) * 3 + (IF m % 4 = 0 THEN 0 ELSE (m % 4) - 1)
    IN [threw |-> m % 4 = 1,
        bytes |-> IF m % 4 = 1 THEN <<>>
                  ELSE [i \in 1..n |-> byte((i - 1) \div 3, (i - 1) % 3)]]

\* float32ToBase64Simple, lines 385-442: it throws for an empty descriptor
\* and for one with no valid value, and returns the text otherwise
float32ToBase64Simple(floats) ==
    IF floats = <<>> THEN [threw |-> TRUE, text |-> <<>>]
    ELSE IF ~\E i \in 1..Len(floats) : IsValid(floats[i])
    THEN [threw |-> TRUE, text |-> <<>>]
    ELSE [threw |-> FALSE, text |-> btoa(BytesOf(floats))]

\* base64ToFloat32Simple, lines 444-456: atob, the bytes, and the array on
\* their buffer, which is a RangeError for a length that 4 does not divide
base64ToFloat32Simple(text) ==
    LET binary == atob(text)
    IN IF binary.threw \/ Len(binary.bytes) % 4 # 0
       THEN [threw |-> TRUE, floats |-> <<>>]
       ELSE [threw |-> FALSE, floats |-> FloatsOf(binary.bytes)]

\* detectSingleFaceDescriptor, lines 103-125: a descriptor with an invalid
\* value is returned with 0 in the place of each invalid value
cleanDescriptor(floats) ==
    IF \E i \in 1..Len(floats) : ~IsValid(floats[i])
    THEN [i \in 1..Len(floats) |-> IF IsValid(floats[i]) THEN floats[i] ELSE Zero]
    ELSE floats

(***************************************************************************)
(* AttendanceScanner.tsx: tracker                                          *)
(***************************************************************************)
\* four times the square of calculateFaceDistance
calculateFaceDistance(face1, face2) ==
    LET cx == (2 * face1.x + face1.width) - (2 * face2.x + face2.width)
        cy == (2 * face1.y + face1.height) - (2 * face2.y + face2.height)
    IN cx * cx + cy * cy

calculateDynamicFaceBox(originalBox, nose) ==
    LET faceWidth == originalBox.width
        faceHeight == originalBox.height
        noseX == IF nose # <<>> THEN nose[1] ELSE originalBox.x + faceWidth \div 2
        noseY == IF nose # <<>> THEN nose[2] ELSE originalBox.y + (faceHeight * 4) \div 10
        boxWidth == (faceWidth * 9) \div 10
        boxHeight == (faceHeight * 9) \div 10
        boxX == noseX - boxWidth \div 2
        boxY == noseY - (boxHeight * 3) \div 10
    IN [x |-> Max(0, boxX), y |-> Max(0, boxY), width |-> boxWidth, height |-> boxHeight]

maxHistory == 5

HistGet(hist, faceId) == IF faceId \in DOMAIN hist THEN hist[faceId] ELSE <<>>

HistSet(hist, faceId, h) ==
    [k \in DOMAIN hist \cup {faceId} |-> IF k = faceId THEN h ELSE hist[k]]

Mean(updatedHistory) ==
    LET n == Len(updatedHistory)
    IN [x |-> SumSeq([i \in 1..n |-> updatedHistory[i].x]) \div n,
        y |-> SumSeq([i \in 1..n |-> updatedHistory[i].y]) \div n,
        width |-> SumSeq([i \in 1..n |-> updatedHistory[i].width]) \div n,
        height |-> SumSeq([i \in 1..n |-> updatedHistory[i].height]) \div n]

\* smoothFacePosition read against the history map `hist` the caller closes over:
\* the history it stores and the position it returns
smoothFacePosition(hist, faceId, newPosition) ==
    LET history == HistGet(hist, faceId)
        updatedHistory == LastN(Append(history, newPosition), maxHistory)
    IN [history |-> updatedHistory,
        position |-> IF Len(updatedHistory) = 1 THEN newPosition
                     ELSE Mean(updatedHistory)]

\* the closest tracked face within reach of newFace, among those not used yet:
\* the inner trackedFaces.forEach of matchFacesWithTracked.
\* tracked is the map in insertion order, a sequence of [key, face];
\* best is <<>> (null) or <<[id, distance]>>
RECURSIVE closestTracked(_, _, _, _)
closestTracked(newFace, tracked, usedTrackedIds, best) ==
    IF tracked = <<>> THEN best
    ELSE LET e == Head(tracked)
             distance == calculateFaceDistance(newFace.box, e.face.position)
             m == Min(newFace.box.width, newFace.box.height)
             maxDistance == m * m
             nb == IF e.key \notin usedTrackedIds
                      /\ distance < maxDistance
                      /\ (best = <<>> \/ distance < best[1].distance)
                   THEN <<[id |-> e.key, distance |-> distance]>>
                   ELSE best
         IN closestTracked(newFace, Tail(tracked), usedTrackedIds, nb)

TrackedGet(tracked, key) ==
    (CHOOSE i \in 1..Len(tracked) : tracked[i].key = key)

\* the body of newFaces.forEach in matchFacesWithTracked, lines 266-337, for
\* the face at place `index` and the bestMatch found for it.
\* acc = [matched: the faces pushed so far, used: usedTrackedIds,
\*        calls: the setFacePositionHistory calls made, in order]
matchOne(newFace, index, tracked, hist, now, acc, bestMatch) ==
    LET dynamicBox == calculateDynamicFaceBox(newFace.box, newFace.nose)
        faceId == IF bestMatch # <<>> THEN bestMatch[1].id ELSE FaceId(now, index - 1)
        sm == smoothFacePosition(hist, faceId, dynamicBox)
        face == IF bestMatch # <<>>
                THEN [tracked[TrackedGet(tracked, faceId)].face
                        EXCEPT !.position = sm.position]
                ELSE [id |-> faceId, isRecognized |-> FALSE,
                      position |-> sm.position]
    IN [matched |-> Append(acc.matched, face),
        used |-> IF bestMatch # <<>> THEN acc.used \cup {faceId} ELSE acc.used,
        calls |-> Append(acc.calls, [faceId |-> faceId, history |-> sm.history])]

\* matchFacesWithTracked for the faces from place `index` on
RECURSIVE matchFacesFrom(_, _, _, _, _, _)
matchFacesFrom(newFaces, index, tracked, hist, now, acc) ==
    IF index > Len(newFaces) THEN acc
    ELSE matchFacesFrom(newFaces, index + 1, tracked, hist, now,
            matchOne(newFaces[index], index, tracked, hist, now, acc,
                     closestTracked(newFaces[index], tracked, acc.used, <<>>)))

matchFacesWithTracked(newFaces, tracked, hist, now) ==
    matchFacesFrom(newFaces, 1, tracked, hist, now,
                   [matched |-> <<>>, used |-> {}, calls |-> <<>>])

\* new Map, then set(key, face) for each: a key set again keeps its place
RECURSIVE MapFromSeq(_, _, _)
MapFromSeq(keys, faces, acc) ==
    IF keys = <<>> THEN acc
    ELSE LET k == Head(keys)
             f == Head(faces)
             nacc == IF \E i \in 1..Len(acc) : acc[i].key = k
                     THEN [i \in 1..Len(acc) |->
                             IF acc[i].key = k THEN [key |-> k, face |-> f] ELSE acc[i]]
                     ELSE Append(acc, [key |-> k, face |-> f])
         IN MapFromSeq(Tail(keys), Tail(faces), nacc)

(***************************************************************************)
(* AttendanceScanner.tsx: the part of one loop iteration that runs after   *)
(* `await detectMultipleFaces(video)` has resolved with detectedFaces.     *)
(* c is the closure of the iteration: the recognizedIds, trackedFaces and  *)
(* facePositionHistory of the render that created its effect.              *)
(***************************************************************************)
\* known: the gallery, enrollments with a facial_id, in list order
known(enr) ==
    [i \in 1..Len(enr) |-> [id |-> enr[i], descriptor |-> Descriptor(enr[i])]]

validFacesOf(detected) ==
    SelectSeq(detected, LAMBDA face : face.box.width > Px(20) /\ face.box.height > Px(20))

\* the body of the recognition for loop, lines 652-684, for the face at place
\* i and the match found for it (<<>> when the track is recognized already).
\* acc = [faces: matchedFaces with the recognition results written into them,
\*        recognizedFaces, hasNewRecognition]
recognizeOne(i, closureIds, acc, match) ==
    LET trackedFace == acc.faces[i]
        isRecognized == match # <<>> /\ match[1].id \notin closureIds
        updated == IF match # <<>>
                   THEN [trackedFace EXCEPT !.id = match[1].id,
                                            !.isRecognized = isRecognized]
                   ELSE trackedFace
    IN [faces |-> [acc.faces EXCEPT ![i] = updated],
        recognizedFaces |-> IF updated.isRecognized
                            THEN Append(acc.recognizedFaces, updated)
                            ELSE acc.recognizedFaces,
        hasNewRecognition |-> acc.hasNewRecognition \/ isRecognized]

\* the recognition for loop, lines 650-685, from place i on
RECURSIVE recognizeFrom(_, _, _, _, _)
recognizeFrom(validFaces, i, closureIds, gallery, acc) ==
    IF i > Len(validFaces) THEN acc
    ELSE recognizeFrom(validFaces, i + 1, closureIds, gallery,
            recognizeOne(i, closureIds, acc,
               IF acc.faces[i].isRecognized THEN <<>>
               ELSE findBestMatch(validFaces[i].descriptor, gallery, LoopThreshold2)))

\* the state updates of the iteration:
\*   calls               the setFacePositionHistory calls, in order
\*   setTracked/tracked  setTrackedFaces(newTrackedFaces)
\*   setDetected/shown   setDetectedFaces(...)
\*   hasNew/newIds       setRecognizedIds(newRecognizedIds), setRecognizedCount(size)
\*   recognized          the recognition for loop ran
\*   submitted           the calls of findBestMatch it made
noUpdate ==
    [calls |-> <<>>, setTracked |-> FALSE, tracked |-> <<>>,
     setDetected |-> FALSE, shown |-> <<>>,
     hasNew |-> FALSE, newIds |-> {}, matchedKeys |-> <<>>,
     recognized |-> FALSE, submitted |-> 0]

\* lines 622-707, given the result m of matchFacesWithTracked and the result
\* rec of the recognition for loop
loopAfterRecognition(c, m, doRecognize, rec) ==
    [calls |-> m.calls,
     setTracked |-> TRUE,
     tracked |-> MapFromSeq([i \in 1..Len(m.matched) |-> m.matched[i].id],
                            IF doRecognize THEN rec.faces ELSE m.matched, <<>>),
     setDetected |-> doRecognize,
     shown |-> IF doRecognize THEN rec.recognizedFaces ELSE <<>>,
     hasNew |-> doRecognize /\ rec.hasNewRecognition,
     newIds |-> c.recognizedIds \cup
                  {rec.recognizedFaces[i].id : i \in 1..Len(rec.recognizedFaces)},
     matchedKeys |-> [i \in 1..Len(m.calls) |-> m.calls[i].faceId],
     recognized |-> doRecognize,
     submitted |-> IF doRecognize
                   THEN Cardinality({i \in 1..Len(m.matched) : ~m.matched[i].isRecognized})
                   ELSE 0]

\* a loop that runs the recognition in every pass with a face
recognizesEveryPass(c, gallery) == gallery # <<>>

\* the test of line 643, with the shouldRecognize of the iteration
recognizes(c, gallery) == c.shouldRecognize /\ gallery # <<>>

loopAfterMatch(c, validFaces, gallery, m) ==
    loopAfterRecognition(c, m, recognizes(c, gallery),
        recognizeFrom(validFaces, 1, c.recognizedIds, gallery,
           [faces |-> m.matched, recognizedFaces |-> <<>>,
            hasNewRecognition |-> FALSE]))

loopAfterValid(c, validFaces, gallery, t) ==
    IF validFaces = <<>> THEN noUpdate
    ELSE loopAfterMatch(c, validFaces, gallery,
            matchFacesWithTracked(validFaces, c.trackedFaces, c.hist, t))

loopAfterDetection(c, detected, gallery, t) ==
    IF detected = <<>>
    THEN [noUpdate EXCEPT !.setDetected = TRUE]
    ELSE loopAfterValid(c, validFacesOf(detected), gallery, t)

(***************************************************************************)
(* State                                                                   *)
(***************************************************************************)
VARIABLES
    \* the page and its data
    mounted,              \* the AttendanceScanner component is mounted
    pageLoads,            \* page loads of the scanner so far
    enrollments,          \* useClassEnrollments: student ids, in list order
    \* useState
    isScanning, isCompleting, cameraError,
    recognizedIds, recognizedCount, manualAttendance,
    toggles,              \* clicks in the Manual Override dialog so far
    trackedFaces, facePositionHistory, detectedFaces,
    \* the video element and the camera
    srcObject,            \* videoRef.current.srcObject: "none" or "live"
    pendingAcq,           \* the getUserMedia calls of startScanning that are pending
    liveStreams,          \* the acquired streams whose tracks are not stopped
    restartTimers,        \* the pending setTimeout(startScanning, 500) of switchCamera
    currentCameraFacing,  \* "environment" or "user"
    restartFacings,       \* the currentCameraFacing each pending timer's startScanning closed over
    requestedFacing,      \* the facingMode of the last getUserMedia request, "none" before any
    switches,             \* clicks on the camera switch so far
    \* the scan loop
    eff,                  \* the closure and the locals of the current effect
    inFlight,             \* pending detectMultipleFaces calls, oldest first
    now,                  \* Date.now(), counted in detection passes
    detections,           \* detection calls started in this page session
    \* completeScan
    pc, finalPresentIds, finalAbsentIds,
    \* the store, for this class and date
    sessions,             \* rows of attendance_sessions
    records,              \* rows of attendance_records
    \* history, for the statements about the tracker
    lastFrame,            \* the valid faces of the latest detection pass
    applied,              \* the time of the pass that last called setTrackedFaces
    fed,                  \* the boxes fed to the single track since it was created
    recognitions,         \* runs of the recognition for loop so far
    recognizeDue,         \* detection calls started so far in a frame with shouldRecognize
    matcherCalls,         \* calls of findBestMatch in the latest pass
    \* the failures of the scan loop
    recognitionStatus,    \* "failed", or "idle" for idle, recognizing and success
    failures,             \* detection passes that failed in a row, up to now
    \* face.ts, the models
    modelsLoaded,         \* let modelsLoaded
    modelLoadingPromise,  \* let modelLoadingPromise: "null", "pending", "fulfilled"
    awaiting,             \* the callers that await modelLoadingPromise
    loadCalls,            \* calls of loadFaceModels and preloadFaceModels so far
    netLoads,             \* loads of the three nets started so far
    loading,              \* loads of the three nets that are running
    \* face.ts, calls of the codec, of the distance and of the matcher
    codecIn,              \* the descriptor given to float32ToBase64Simple
    codecText,            \* <<>>, or what float32ToBase64Simple made of it
    codecOut,             \* <<>>, or what base64ToFloat32Simple made of the text
    distIn,               \* the two descriptors given to computeEuclideanDistance
    distOut,              \* <<>>, or how the call ended
    matchIn,              \* the query, the knowns and the threshold given to findBestMatch
    matchOut,             \* <<>>, or what it returned
    \* StudentEnrollment
    currentStep,          \* "info", "position", "capture", "angles", "review", "complete"
    stableFaceCount,      \* counted up to stableAfter, which is all that is read of it
    autoMoveCountdown,
    faceDetected,
    isCapturing,
    descriptorB64,        \* the text of the captured descriptor, <<>> for ""
    descriptorFrom,       \* the function whose setDescriptorB64 wrote it: "none", "capture", "angles"
    isSaving,
    enrollmentCompleted,
    studentKey,           \* the student id typed in for this enrollment
    checks,               \* pending checkFaceDetection calls, by what they closed over
    intervals,            \* countdown intervals of checkFaceDetection that are running
    captureTimer,         \* the timer of the auto-capture effect: "off" or what it closed over
    anglesTimer,          \* the timer of the angles effect: "off" or what it closed over
    capturing,            \* "no", "descriptor" or "angles": the capture that is running
    nextTimers,           \* pending setTimeout(nextStep), by the step nextStep closed over
    persists,             \* the runs of persistStudentAndEnrollment, oldest first
    studentRows,          \* rows of students, by student_id
    facialIds,            \* the facial_id of each row of students
    enrollmentRows,       \* rows of enrollments of the class, by student
    toastTitle,           \* the title of the last toast of persistStudentAndEnrollment
    markCycle             \* per student: was it in recognizedIds, and how many passes had
                          \* ended, when its manual mark last left 'unset'

pageVars == <<mounted, pageLoads, enrollments, toggles, switches>>
uiVars == <<isScanning, isCompleting, cameraError>>
countVars == <<recognizedIds, recognizedCount>>
trackVars == <<trackedFaces, facePositionHistory, detectedFaces>>
facingVars == <<currentCameraFacing, restartFacings, requestedFacing>>
cameraVars == <<srcObject, pendingAcq, liveStreams, restartTimers, facingVars>>
loopVars == <<eff, inFlight, now, detections>>
completeVars == <<pc, finalPresentIds, finalAbsentIds>>
storeVars == <<sessions, records>>
ghostVars == <<lastFrame, applied, fed>>
errorVars == <<recognitionStatus, failures>>
cadenceVars == <<recognitions, recognizeDue, matcherCalls>>
libVars == <<codecIn, codecText, codecOut, distIn, distOut, matchIn, matchOut>>
faceVars == <<modelsLoaded, modelLoadingPromise, awaiting, loadCalls, netLoads, loading,
              libVars>>

\* the state of the scanner page
scannerVars == <<pageVars, uiVars, countVars, manualAttendance, trackVars, cameraVars,
                 loopVars, completeVars, storeVars, ghostVars, errorVars, cadenceVars,
                 markCycle>>

wizardVars == <<currentStep, stableFaceCount, autoMoveCountdown, faceDetected,
                isCapturing, descriptorB64, descriptorFrom, checks, intervals, captureTimer,
                anglesTimer, capturing, nextTimers>>
persistVars == <<isSaving, enrollmentCompleted, studentKey, persists, studentRows,
                 facialIds, enrollmentRows, toastTitle>>
enrollVars == <<wizardVars, persistVars>>

\* the state outside the scanner page
otherVars == <<faceVars, enrollVars>>

vars == <<scannerVars, otherVars>>

EmptyMap == [k \in {} |-> <<>>]

totalStudents == Len(enrollments)

Enrolled == {enrollments[i] : i \in 1..Len(enrollments)}

\* the <video> element is rendered in the camera view only (lines 825-915)
videoMounted == mounted /\ isScanning /\ ~isCompleting

\* the effect of lines 527-768, created by a render with this state
NewEffect(scanning, ids, tracked, hist) ==
    [isScanning |-> scanning, recognizedIds |-> ids, trackedFaces |-> tracked,
     hist |-> hist, aliased |-> TRUE, frameCount |-> 0, raf |-> scanning,
     errorCount |-> 0, cancelled |-> FALSE]

\* the cleanup of the effect: cancelled = true for the iterations it started
Cancelled(flights) == [i \in 1..Len(flights) |-> [flights[i] EXCEPT !.cancelled = TRUE]]

\* a closure that holds the Map object which is the current facePositionHistory
\* sees `prev.set(faceId, updatedHistory)` change that object in place
Unalias(c, calls) ==
    IF calls # <<>> /\ c.aliased
    THEN [c EXCEPT !.hist = HistSet(c.hist, calls[1].faceId, calls[1].history),
                   !.aliased = FALSE]
    ELSE c

Detach(c) == [c EXCEPT !.aliased = FALSE]

RECURSIVE ApplyCalls(_, _)
ApplyCalls(hist, calls) ==
    IF calls = <<>> THEN hist
    ELSE ApplyCalls(HistSet(hist, Head(calls).faceId, Head(calls).history), Tail(calls))

Remove(seq, i) == SubSeq(seq, 1, i - 1) \o SubSeq(seq, i + 1, Len(seq))

ManualOf(s) == IF manualAttendance[s] = "undefined" THEN "unset" ELSE manualAttendance[s]

ManualPresentCount == Cardinality({s \in Students : manualAttendance[s] = "present"})

\* face.ts as the module is loaded, lines 5-6
FaceInit ==
    /\ modelsLoaded = FALSE
    /\ modelLoadingPromise = "null"
    /\ awaiting = 0
    /\ loadCalls = 0
    /\ netLoads = 0
    /\ loading = 0

\* no call of the codec, of the distance or of the matcher is looked at
LibInit ==
    /\ codecIn = <<>>
    /\ codecText = <<>>
    /\ codecOut = <<>>
    /\ distIn = [a |-> <<>>, b |-> <<>>]
    /\ distOut = <<>>
    /\ matchIn = [query |-> <<>>, knowns |-> <<>>, threshold |-> 0]
    /\ matchOut = <<>>

\* the first render of StudentEnrollment, part_004 lines 18-33
EnrollInit ==
    /\ currentStep = "info"
    /\ stableFaceCount = 0
    /\ autoMoveCountdown = 0
    /\ faceDetected = FALSE
    /\ isCapturing = FALSE
    /\ descriptorB64 = <<>>
    /\ descriptorFrom = "none"
    /\ isSaving = FALSE
    /\ enrollmentCompleted = FALSE
    /\ studentKey = 1
    /\ checks = [c \in {"position0", "position", "other"} |-> 0]
    /\ intervals = 0
    /\ captureTimer = "off"
    /\ anglesTimer = "off"
    /\ capturing = "no"
    /\ nextTimers = [c \in {"capture", "angles"} |-> 0]
    /\ persists = <<>>
    /\ studentRows = {}
    /\ facialIds = EmptyMap
    /\ enrollmentRows = {}
    /\ toastTitle = "none"

\* the first render of the scanner for a class with these enrolled students
ScannerInit(enr) ==
    /\ mounted = TRUE
    /\ pageLoads = 1
    /\ enrollments = enr
    /\ isScanning = FALSE
    /\ isCompleting = FALSE
    /\ cameraError = FALSE
    /\ recognizedIds = {}
    /\ recognizedCount = 0
    /\ manualAttendance = [s \in Students |-> "undefined"]
    /\ toggles = 0
    /\ switches = 0
    /\ trackedFaces = <<>>
    /\ facePositionHistory = EmptyMap
    /\ detectedFaces = <<>>
    /\ srcObject = "none"
    /\ pendingAcq = 0
    /\ liveStreams = 0
    /\ restartTimers = 0
    /\ currentCameraFacing = "environment"
    /\ restartFacings = <<>>
    /\ requestedFacing = "none"
    /\ eff = NewEffect(FALSE, {}, <<>>, EmptyMap)
    /\ inFlight = <<>>
    /\ now = 0
    /\ detections = 0
    /\ pc = "idle"
    /\ finalPresentIds = {}
    /\ finalAbsentIds = {}
    /\ sessions = <<>>
    /\ records = {}
    /\ lastFrame = <<>>
    /\ applied = 0
    /\ fed = <<>>
    /\ recognitionStatus = "idle"
    /\ failures = 0
    /\ recognitions = 0
    /\ recognizeDue = 0
    /\ matcherCalls = 0
    /\ markCycle = [s \in Students |-> [member |-> FALSE, at |-> 0]]

\* the application as it is loaded, with the scanner page open
InitWith(enr) ==
    /\ ScannerInit(enr)
    /\ FaceInit
    /\ EnrollInit
    /\ LibInit

Init == InitWith(<<1, 2>>)

(***************************************************************************)
(* Actions                                                                 *)
(***************************************************************************)
\* what a page load leaves of the component: the state of the first render
Fresh ==
    /\ isScanning' = FALSE
    /\ isCompleting' = FALSE
    /\ cameraError' = FALSE
    /\ recognizedIds' = {}
    /\ recognizedCount' = 0
    /\ manualAttendance' = [s \in Students |-> "undefined"]
    /\ trackedFaces' = <<>>
    /\ facePositionHistory' = EmptyMap
    /\ detectedFaces' = <<>>
    /\ srcObject' = "none"
    /\ eff' = NewEffect(FALSE, {}, <<>>, EmptyMap)
    /\ inFlight' = <<>>
    /\ lastFrame' = <<>>
    /\ applied' = 0
    /\ fed' = <<>>
    /\ recognitionStatus' = "idle"
    /\ failures' = 0

\* startScanning, lines 65-113, up to `await getUserMedia`; the render that
\* follows setIsScanning(true) runs the effect again (isScanning is a dependency)
startScanning ==
    /\ UNCHANGED <<otherVars, cadenceVars, markCycle>>
    /\ mounted /\ ~isScanning /\ ~isCompleting /\ ~cameraError
    /\ isScanning' = TRUE
    /\ cameraError' = FALSE
    /\ pendingAcq' = pendingAcq + 1
    /\ requestedFacing' = currentCameraFacing
    /\ eff' = NewEffect(TRUE, recognizedIds, trackedFaces, facePositionHistory)
    /\ inFlight' = Cancelled(inFlight)
    /\ UNCHANGED <<pageVars, isCompleting, countVars, manualAttendance,
                   trackVars, srcObject, liveStreams, restartTimers,
                   currentCameraFacing, restartFacings, now,
                   detections, completeVars, storeVars,
                   ghostVars, errorVars>>

\* getUserMedia resolved with a stream, lines 113-136: the stream is live, and
\* `if (videoRef.current) videoRef.current.srcObject = stream` is all that is
\* done with it; nothing is stopped, neither the stream a rendered video
\* already shows nor the new one when no video is rendered
cameraStarted ==
    /\ UNCHANGED <<otherVars, cadenceVars, markCycle>>
    /\ pendingAcq > 0
    /\ pendingAcq' = pendingAcq - 1
    /\ liveStreams' = liveStreams + 1
    /\ srcObject' = IF videoMounted THEN "live" ELSE srcObject
    /\ UNCHANGED <<restartTimers, facingVars>>
    /\ UNCHANGED <<pageVars, uiVars, countVars, manualAttendance, trackVars,
                   loopVars, completeVars, storeVars, ghostVars, errorVars>>

\* every camera configuration was rejected, lines 123-125 and 152-157
cameraFailed ==
    /\ UNCHANGED <<otherVars, cadenceVars, markCycle>>
    /\ pendingAcq > 0
    /\ pendingAcq' = pendingAcq - 1
    /\ cameraError' = IF mounted THEN TRUE ELSE cameraError
    /\ UNCHANGED <<pageVars, isScanning, isCompleting, countVars,
                   manualAttendance, trackVars, srcObject, liveStreams,
                   restartTimers, facingVars, loopVars, completeVars,
                   storeVars, ghostVars, errorVars>>

\* frames between two detection passes, and between two recognition passes
detectEvery == 2
recognizeEvery == 8

\* one requestAnimationFrame callback: loop, lines 545-597, up to the await.
\* frameCount is kept modulo recognizeEvery, which is all the loop reads of it.
loopWithin(maxInFlight, maxDetections) ==
    /\ UNCHANGED otherVars
    /\ mounted /\ eff.raf
    /\ IF ~eff.isScanning \/ ~videoMounted \/ eff.cancelled
       THEN /\ eff' = [eff EXCEPT !.raf = FALSE]
            /\ UNCHANGED <<inFlight, detections, recognizeDue>>
       ELSE LET frameCount == (eff.frameCount + 1) % recognizeEvery
                shouldDetect == frameCount % detectEvery = 0
                shouldRecognize == frameCount % recognizeEvery = 0
            IN /\ eff' = [eff EXCEPT !.frameCount = frameCount]
               /\ IF shouldDetect /\ srcObject = "live"
                  THEN /\ Len(inFlight) < maxInFlight
                       /\ detections < maxDetections
                       /\ detections' = detections + 1
                       /\ inFlight' = Append(inFlight,
                             [cancelled |-> FALSE,
                              shouldRecognize |-> shouldRecognize,
                              recognizedIds |-> eff.recognizedIds,
                              trackedFaces |-> eff.trackedFaces,
                              hist |-> eff.hist,
                              aliased |-> eff.aliased])
                       /\ recognizeDue' = IF shouldRecognize THEN recognizeDue + 1
                                          ELSE recognizeDue
                  ELSE UNCHANGED <<inFlight, detections, recognizeDue>>
    /\ UNCHANGED <<pageVars, uiVars, countVars, manualAttendance, trackVars,
                   cameraVars, now, completeVars, storeVars, ghostVars, errorVars,
                   recognitions, matcherCalls, markCycle>>

\* a count kept as a counter: one more per pass with a new recognition
recognizedCountIncremented(newRecognizedIds) == recognizedCount + 1

\* setRecognizedCount(newRecognizedIds.size), line 707
recognizedCountOf(newRecognizedIds) == Cardinality(newRecognizedIds)

\* the boxes fed to the one track on the screen, after this pass
FedAfter(c, frame, u) ==
    LET valid == validFacesOf(frame)
        box == calculateDynamicFaceBox(valid[1].box, valid[1].nose)
        key == u.matchedKeys[1]
        continued ==
            /\ Len(trackedFaces) = 1
            /\ \E i \in 1..Len(c.trackedFaces) :
                  /\ c.trackedFaces[i].key = key
                  /\ c.trackedFaces[i].face.id = trackedFaces[1].face.id
    IN IF ~u.setTracked THEN fed
       ELSE IF Len(valid) # 1 THEN <<>>
       ELSE IF continued THEN Append(fed, box)
       ELSE <<box>>

\* the updates u of the iteration with closure c, pending at place i, and the
\* render that follows them
applyUpdates(i, frame, c, u) ==
    LET rest == Remove(inFlight, i)
        others == [j \in 1..Len(rest) |-> Unalias(rest[j], u.calls)]
        newHist == ApplyCalls(facePositionHistory, u.calls)
        newTracked == IF u.setTracked THEN u.tracked ELSE trackedFaces
        newIds == IF u.hasNew THEN u.newIds ELSE recognizedIds
    IN /\ now' = now + 1
       /\ facePositionHistory' = newHist
       /\ trackedFaces' = newTracked
       /\ detectedFaces' = IF u.setDetected THEN u.shown ELSE detectedFaces
       /\ recognizedIds' = newIds
       /\ recognizedCount' = IF u.hasNew THEN recognizedCountOf(u.newIds)
                             ELSE recognizedCount
       /\ IF u.hasNew
          THEN /\ eff' = NewEffect(isScanning, newIds, newTracked, newHist)
               /\ inFlight' = Cancelled(others)
          ELSE /\ eff' = Unalias(eff, u.calls)
               /\ inFlight' = others
       /\ recognitionStatus' = IF u.setTracked \/ u.setDetected THEN "idle"
                                ELSE recognitionStatus
       /\ lastFrame' = validFacesOf(frame)
       /\ applied' = IF u.setTracked THEN now + 1 ELSE applied
       /\ fed' = FedAfter(c, frame, u)
       /\ recognitions' = IF u.recognized THEN recognitions + 1 ELSE recognitions
       /\ matcherCalls' = u.submitted

\* how a detection call can end: with the faces of the frame, with an
\* exception of the detector, or after the 2000 ms of face.ts lines 202-204
Outcomes == {"ok", "exception", "timeout"}

Failures == Outcomes \ {"ok"}

\* a detector whose failure is a rejected promise
detectMultipleFacesRejects(outcome, frame) ==
    [rejected |-> outcome # "ok", faces |-> IF outcome = "ok" THEN frame ELSE <<>>]

\* detectMultipleFaces, face.ts lines 146-304: the timeout rejects the race of
\* line 206 inside the try of line 149, whose catch returns []
detectMultipleFaces(outcome, frame) ==
    [rejected |-> FALSE, faces |-> IF outcome = "ok" THEN frame ELSE <<>>]

\* the try around the await, lines 596-601: a rejection is an empty list
awaited(result) ==
    [threw |-> FALSE, faces |-> IF result.rejected THEN <<>> ELSE result.faces]

\* the consecutive errors after which the loop stops, line 535
maxErrors == 5

\* the catch of the loop body, lines 730-751, for the iteration with closure
\* c: errorCount and cancelled are the locals of the effect that started it
catchUpdates(i, c) ==
    LET n == eff.errorCount + 1
    IN /\ now' = now + 1
       /\ recognitionStatus' = "failed"
       /\ detectedFaces' = <<>>
       /\ inFlight' = Remove(inFlight, i)
       /\ eff' = IF c.cancelled THEN eff
                 ELSE [eff EXCEPT !.errorCount = n, !.cancelled = n >= maxErrors]
       /\ recognitions' = recognitions
       /\ matcherCalls' = 0
       /\ UNCHANGED <<countVars, trackedFaces, facePositionHistory, ghostVars>>

\* the rest of a loop iteration, lines 596-751: the i-th pending call of
\* detectMultipleFaces ended, and the render that follows
detectionSettled(i, outcome, frame) ==
    /\ UNCHANGED otherVars
    /\ mounted
    /\ i \in 1..Len(inFlight)
    /\ LET detected == awaited(detectMultipleFaces(outcome, frame))
       IN IF detected.threw
          THEN catchUpdates(i, inFlight[i])
          ELSE applyUpdates(i, detected.faces, inFlight[i],
                  loopAfterDetection(inFlight[i], detected.faces,
                                     known(enrollments), now + 1))
    /\ failures' = IF outcome = "ok" THEN 0 ELSE failures + 1
    /\ UNCHANGED <<pageVars, uiVars, manualAttendance, cameraVars, detections,
                   completeVars, storeVars, recognizeDue, markCycle>>

\* detectMultipleFaces resolved with the faces of `frame`
detectionResolved(i, frame) == detectionSettled(i, "ok", frame)

\* detectMultipleFaces threw, or did not answer in time
detectionFailed(i, outcome) ==
    /\ outcome \in Failures
    /\ detectionSettled(i, outcome, <<>>)

\* a toggle that leaves the adding to the scan loop
addsToRecognizedNever(next, studentId) == FALSE

\* the two conditions of lines 360 and 363, read with the rendered recognizedIds
addsToRecognized(next, studentId) ==
    next = "present" /\ studentId \notin recognizedIds

removesFromRecognized(next, studentId) ==
    next # "present" /\ studentId \in recognizedIds

NextManual(current) ==
    IF current = "unset" THEN "present"
    ELSE IF current = "present" THEN "absent" ELSE "unset"

\* the live streams after stopCamera, lines 342-346: the tracks of the stream
\* the rendered video shows are stopped, and of that stream only
stopCamera == IF srcObject = "live" THEN liveStreams - 1 ELSE liveStreams

\* newFacing, line 163
otherFacing(facing) == IF facing = "environment" THEN "user" ELSE "environment"

\* switchCamera, lines 160-176, clicked in the camera view (line 935), where
\* isScanning holds: stopCamera, the resets, and the timer that will call
\* startScanning.  The maps are replaced, so no closure shares them any more.
switchCamera ==
    /\ UNCHANGED <<otherVars, cadenceVars, markCycle>>
    /\ mounted /\ isScanning /\ ~isCompleting
    /\ switches < MaxSwitches
    /\ switches' = switches + 1
    /\ liveStreams' = stopCamera
    /\ srcObject' = "none"
    /\ trackedFaces' = <<>>
    /\ facePositionHistory' = EmptyMap
    /\ detectedFaces' = <<>>
    /\ recognitionStatus' = "idle"
    /\ restartTimers' = restartTimers + 1
    /\ currentCameraFacing' = otherFacing(currentCameraFacing)
    /\ restartFacings' = Append(restartFacings, currentCameraFacing)
    /\ UNCHANGED requestedFacing
    /\ eff' = Detach(eff)
    /\ inFlight' = [j \in 1..Len(inFlight) |-> Detach(inFlight[j])]
    /\ lastFrame' = <<>>
    /\ applied' = 0
    /\ fed' = <<>>
    /\ UNCHANGED <<mounted, pageLoads, enrollments, toggles, uiVars, countVars,
                   manualAttendance, pendingAcq, now, detections, completeVars,
                   storeVars, failures>>

\* the timer of switchCamera, lines 174-176, calls startScanning (lines 65-113):
\* on a component that is gone the state setters do nothing, the camera is
\* requested all the same
restartScanning ==
    /\ UNCHANGED <<otherVars, cadenceVars, markCycle>>
    /\ restartTimers > 0
    /\ restartTimers' = restartTimers - 1
    /\ requestedFacing' = Head(restartFacings)
    /\ restartFacings' = Tail(restartFacings)
    /\ UNCHANGED currentCameraFacing
    /\ pendingAcq' = pendingAcq + 1
    /\ isScanning' = IF mounted THEN TRUE ELSE isScanning
    /\ cameraError' = IF mounted THEN FALSE ELSE cameraError
    /\ IF mounted /\ ~isScanning
       THEN /\ eff' = NewEffect(TRUE, recognizedIds, trackedFaces, facePositionHistory)
            /\ inFlight' = Cancelled(inFlight)
       ELSE UNCHANGED <<eff, inFlight>>
    /\ UNCHANGED <<pageVars, isCompleting, countVars, manualAttendance,
                   trackVars, srcObject, liveStreams, now, detections,
                   completeVars, storeVars, ghostVars, errorVars>>

\* toggleManualAttendance, lines 354-374, clicked in the Manual Override dialog.
\* The dialog is opened from the camera view (lines 951-959, 1028-1036) and is
\* modal: it can be open, and closed again, whenever the camera view is shown.
toggleWithin(studentId, maxToggles) ==
    /\ UNCHANGED <<otherVars, cadenceVars>>
    /\ mounted /\ isScanning /\ ~isCompleting
    /\ studentId \in Enrolled
    /\ toggles < maxToggles
    /\ markCycle' = IF ManualOf(studentId) = "unset"
                    THEN [markCycle EXCEPT ![studentId] =
                             [member |-> studentId \in recognizedIds, at |-> now]]
                    ELSE markCycle
    /\ toggles' = toggles + 1
    /\ LET next == NextManual(ManualOf(studentId))
           add == addsToRecognized(next, studentId)
           del == removesFromRecognized(next, studentId)
           newIds == IF add THEN recognizedIds \cup {studentId}
                     ELSE IF del THEN recognizedIds \ {studentId}
                     ELSE recognizedIds
       IN /\ manualAttendance' = [manualAttendance EXCEPT ![studentId] = next]
          /\ recognizedIds' = newIds
          /\ recognizedCount' = IF add THEN recognizedCount + 1
                                ELSE IF del THEN recognizedCount - 1
                                ELSE recognizedCount
          /\ IF add \/ del
             THEN /\ eff' = NewEffect(isScanning, newIds, trackedFaces,
                                      facePositionHistory)
                  /\ inFlight' = Cancelled(inFlight)
             ELSE UNCHANGED <<eff, inFlight>>
    /\ UNCHANGED <<mounted, pageLoads, enrollments, switches, uiVars, trackVars,
                   cameraVars, now, detections, completeVars, storeVars, ghostVars,
                   errorVars>>

toggleManualAttendance(studentId) == toggleWithin(studentId, MaxToggles)

\* an if chain in which recognition outranks a manual 'absent'
FinalStatusRecognizedFirst(studentId) ==
    IF manualAttendance[studentId] = "present" THEN "present"
    ELSE IF studentId \in recognizedIds THEN "present"
    ELSE "absent"

\* an if chain without the last else: a student neither marked nor
\* recognized gets no status
FinalStatusWithoutElse(studentId) ==
    IF manualAttendance[studentId] = "present" THEN "present"
    ELSE IF manualAttendance[studentId] = "absent" THEN "absent"
    ELSE IF studentId \in recognizedIds THEN "present"
    ELSE "none"

\* the if chain of completeScan, lines 397-418
FinalStatus(studentId) ==
    IF manualAttendance[studentId] = "present" THEN "present"
    ELSE IF manualAttendance[studentId] = "absent" THEN "absent"
    ELSE IF studentId \in recognizedIds THEN "present"
    ELSE "absent"

\* the present total of the Manual Override dialog, line 1115
dialogPresentTotal ==
    ManualPresentCount + Cardinality(recognizedIds)
       - Cardinality({s \in Students : manualAttendance[s] = "absent" /\ s \in recognizedIds})

\* the label of the Complete Scan button, line 1046: "(n auto + m manual)"
completeLabel == [auto |-> recognizedCount, manual |-> ManualPresentCount]

\* the Complete Scan button is disabled, line 1043
CompleteDisabled == recognizedCount = 0 /\ ManualPresentCount = 0

\* completeScan, lines 376-424, up to the first await:
\* setIsCompleting(true), stopCamera(), and the final sets
completeScan ==
    /\ UNCHANGED <<otherVars, cadenceVars, markCycle>>
    /\ mounted /\ isScanning /\ ~isCompleting
    /\ ~CompleteDisabled
    /\ pc = "idle"
    /\ isCompleting' = TRUE
    /\ srcObject' = "none"
    /\ liveStreams' = stopCamera
    /\ trackedFaces' = <<>>
    /\ facePositionHistory' = EmptyMap
    /\ detectedFaces' = <<>>
    /\ eff' = Detach(eff)
    /\ inFlight' = [j \in 1..Len(inFlight) |-> Detach(inFlight[j])]
    /\ finalPresentIds' = {s \in Enrolled : FinalStatus(s) = "present"}
    /\ finalAbsentIds' = {s \in Enrolled : FinalStatus(s) = "absent"}
    /\ pc' = "deleteSessions"
    /\ recognitionStatus' = "idle"
    /\ lastFrame' = <<>>
    /\ applied' = 0
    /\ fed' = <<>>
    /\ UNCHANGED <<pageVars, isScanning, cameraError, countVars,
                   manualAttendance, pendingAcq, restartTimers, facingVars, now,
                   detections, storeVars, failures>>

\* a completion that does not delete the sessions of the day
deleteSessionsKept(rows) == rows

\* delete().eq('class_id', classId).eq('date', today), lines 428-432, 458-462
deleteSessions(rows) == <<>>

deleteRecords(rows) == {}

Rows(ids, status) == {[student_id |-> s, status |-> status] : s \in ids}

\* UNIQUE(class_id, student_id, date) of attendance_records
Conflict(ids) == \E r \in records : r.student_id \in ids

AfterDeleteRecords ==
    IF finalPresentIds # {} THEN "insertPresent"
    ELSE IF finalAbsentIds # {} THEN "insertAbsent" ELSE "done"

AfterInsertPresent == IF finalAbsentIds # {} THEN "insertAbsent" ELSE "done"

\* window.location.href = `/results/${classId}`: the page is left
Settle(next) ==
    /\ pc' = next
    /\ IF next = "done"
       THEN /\ mounted' = FALSE
            /\ Fresh
            /\ pendingAcq' = 0
            /\ liveStreams' = 0
            /\ restartTimers' = 0
            /\ restartFacings' = <<>>
            /\ UNCHANGED <<currentCameraFacing, requestedFacing>>
       ELSE UNCHANGED <<mounted, uiVars, countVars, manualAttendance, trackVars,
                        cameraVars, eff, inFlight, ghostVars, errorVars>>

\* one store call of completeScan, lines 425-509, succeeded
storeSucceeded ==
    /\ UNCHANGED <<otherVars, cadenceVars, markCycle>>
    /\ pc \in {"deleteSessions", "insertSession", "deleteRecords",
               "insertPresent", "insertAbsent"}
    /\ CASE pc = "deleteSessions" ->
              /\ sessions' = deleteSessions(sessions)
              /\ records' = records
              /\ Settle("insertSession")
         [] pc = "insertSession" ->
              /\ sessions' = Append(sessions,
                    [total_students |-> totalStudents,
                     present_count |-> Cardinality(finalPresentIds),
                     absent_count |-> Cardinality(finalAbsentIds)])
              /\ records' = records
              /\ Settle("deleteRecords")
         [] pc = "deleteRecords" ->
              /\ records' = deleteRecords(records)
              /\ sessions' = sessions
              /\ Settle(AfterDeleteRecords)
         [] pc = "insertPresent" ->
              /\ ~Conflict(finalPresentIds)
              /\ records' = records \cup Rows(finalPresentIds, "present")
              /\ sessions' = sessions
              /\ Settle(AfterInsertPresent)
         [] pc = "insertAbsent" ->
              /\ ~Conflict(finalAbsentIds)
              /\ records' = records \cup Rows(finalAbsentIds, "absent")
              /\ sessions' = sessions
              /\ Settle("done")
    /\ UNCHANGED <<pageLoads, enrollments, toggles, switches, now, detections,
                   finalPresentIds, finalAbsentIds>>

\* one store call failed: the catch of completeScan, lines 511-524
storeFailed ==
    /\ UNCHANGED <<otherVars, cadenceVars, markCycle>>
    /\ pc \in {"deleteSessions", "insertSession", "deleteRecords",
               "insertPresent", "insertAbsent"}
    /\ pc' = "idle"
    /\ isCompleting' = FALSE
    /\ UNCHANGED <<pageVars, isScanning, cameraError, countVars,
                   manualAttendance, trackVars, cameraVars, loopVars,
                   finalPresentIds, finalAbsentIds, storeVars, ghostVars, errorVars>>

\* the back link, lines 815-821: the cleanups of lines 759-767 and 788-792 run
\* and the component's state is dropped.  stopCamera reads videoRef.current in
\* an effect cleanup: whether the ref is still set then, or was cleared when
\* the video element was removed, is the library's choice.  Pending
\* getUserMedia calls and restart timers are not cancelled.
unmount ==
    /\ UNCHANGED <<otherVars, cadenceVars, markCycle>>
    /\ mounted
    /\ mounted' = FALSE
    /\ Fresh
    /\ \E refSet \in BOOLEAN : liveStreams' = IF refSet THEN stopCamera ELSE liveStreams
    /\ UNCHANGED <<pageLoads, enrollments, toggles, switches, pendingAcq,
                   restartTimers, facingVars, now, detections, completeVars,
                   storeVars>>

\* the scanner is opened again for the same class and date
openScanner ==
    /\ UNCHANGED <<otherVars, cadenceVars, markCycle>>
    /\ ~mounted
    /\ pc \in {"idle", "done"}
    /\ pageLoads < MaxSessions
    /\ pendingAcq = 0 /\ restartTimers = 0
    /\ mounted' = TRUE
    /\ pageLoads' = pageLoads + 1
    /\ pc' = "idle"
    /\ Fresh
    /\ currentCameraFacing' = "environment"
    /\ UNCHANGED <<enrollments, toggles, switches, pendingAcq, liveStreams,
                   restartTimers, restartFacings, requestedFacing, now, detections, finalPresentIds, finalAbsentIds,
                   storeVars>>

(***************************************************************************)
(* face.ts: loading the models                                             *)
(***************************************************************************)
\* a loader that looks at the flag only
startsLoadUnlessLoaded == ~modelsLoaded

\* the two tests of loadFaceModels, lines 9 and 12, and the one of
\* preloadFaceModels, line 49: a call starts a load when both let it
startsLoad == ~modelsLoaded /\ modelLoadingPromise = "null"

\* the async function of lines 18-42 is called: the three loadFromUri
\* requests are sent before its first await
startNets ==
    /\ modelLoadingPromise' = "pending"
    /\ netLoads' = netLoads + 1
    /\ loading' = loading + 1

\* loadFaceModels(), lines 8-45, up to the promise it returns
loadFaceModels ==
    /\ loadCalls < MaxLoadCalls
    /\ loadCalls' = loadCalls + 1
    /\ IF modelsLoaded
       THEN UNCHANGED <<modelLoadingPromise, awaiting, netLoads, loading>>
       ELSE /\ awaiting' = awaiting + 1
            /\ IF startsLoad THEN startNets
               ELSE UNCHANGED <<modelLoadingPromise, netLoads, loading>>
    /\ UNCHANGED <<modelsLoaded, scannerVars, enrollVars, libVars>>

\* preloadFaceModels(), lines 48-52: its caller does not wait
preloadFaceModels ==
    /\ loadCalls < MaxLoadCalls
    /\ loadCalls' = loadCalls + 1
    /\ IF startsLoad THEN startNets
       ELSE UNCHANGED <<modelLoadingPromise, netLoads, loading>>
    /\ UNCHANGED <<modelsLoaded, awaiting, scannerVars, enrollVars, libVars>>

\* Promise.all of lines 21-34 resolved, lines 35-36
netsLoaded ==
    /\ loading > 0
    /\ loading' = loading - 1
    /\ modelsLoaded' = TRUE
    /\ modelLoadingPromise' = "fulfilled"
    /\ awaiting' = 0
    /\ UNCHANGED <<loadCalls, netLoads, scannerVars, enrollVars, libVars>>

\* one of the three requests failed, lines 37-41: the promise is dropped and
\* the callers that await it get the error
netsFailed ==
    /\ loading > 0
    /\ loading' = loading - 1
    /\ modelLoadingPromise' = "null"
    /\ awaiting' = 0
    /\ UNCHANGED <<modelsLoaded, loadCalls, netLoads, scannerVars, enrollVars, libVars>>

NextModels ==
    \/ loadFaceModels
    \/ preloadFaceModels
    \/ netsLoaded
    \/ netsFailed

SpecModels == Init /\ [][NextModels]_vars

(***************************************************************************)
(* face.ts: calls of the codec, of the distance and of the matcher, each   *)
(* with arguments drawn at the start                                       *)
(***************************************************************************)
SeqsUpTo(S, n) == UNION {[1..k -> S] : k \in 0..n}

\* the descriptors given to the codec: empty, finite, with invalid values
CodecInputs == SeqsUpTo({Zero, Tenth, MinusHalf, MaxFinite, QuietNaN}, MaxFloats)

InitCodec ==
    /\ ScannerInit(<<1, 2>>) /\ FaceInit /\ EnrollInit
    /\ codecIn \in CodecInputs
    /\ codecText = <<>>
    /\ codecOut = <<>>
    /\ distIn = [a |-> <<>>, b |-> <<>>]
    /\ distOut = <<>>
    /\ matchIn = [query |-> <<>>, knowns |-> <<>>, threshold |-> 0]
    /\ matchOut = <<>>

\* the enrollment encodes the descriptor it captured (part_004 line 283)
encode ==
    /\ codecText = <<>>
    /\ codecText' = <<float32ToBase64Simple(codecIn)>>
    /\ UNCHANGED <<codecIn, codecOut, distIn, distOut, matchIn, matchOut>>
    /\ UNCHANGED <<modelsLoaded, modelLoadingPromise, awaiting, loadCalls, netLoads,
                   loading, scannerVars, enrollVars>>

\* the scanner decodes the stored text (AttendanceScanner.tsx line 542)
decode ==
    /\ codecText # <<>> /\ ~codecText[1].threw
    /\ codecOut = <<>>
    /\ codecOut' = <<base64ToFloat32Simple(codecText[1].text)>>
    /\ UNCHANGED <<codecIn, codecText, distIn, distOut, matchIn, matchOut>>
    /\ UNCHANGED <<modelsLoaded, modelLoadingPromise, awaiting, loadCalls, netLoads,
                   loading, scannerVars, enrollVars>>

NextCodec ==
    \/ encode
    \/ decode

SpecCodec == InitCodec /\ [][NextCodec]_vars

\* descriptors in tenths, of 0 to MaxDims elements
Vectors == SeqsUpTo({0, 3, 10}, MaxDims)

InitDistance ==
    /\ ScannerInit(<<1, 2>>) /\ FaceInit /\ EnrollInit
    /\ codecIn = <<>>
    /\ codecText = <<>>
    /\ codecOut = <<>>
    /\ distIn \in [a : Vectors, b : Vectors]
    /\ distOut = <<>>
    /\ matchIn = [query |-> <<>>, knowns |-> <<>>, threshold |-> 0]
    /\ matchOut = <<>>

\* a call of computeEuclideanDistance, lines 306-313: no statement of it
\* throws, a number or NaN is returned
measure ==
    /\ distOut = <<>>
    /\ distOut' = <<[threw |-> FALSE,
                     value |-> computeEuclideanDistance(distIn.a, distIn.b)]>>
    /\ UNCHANGED <<codecIn, codecText, codecOut, distIn, matchIn, matchOut>>
    /\ UNCHANGED <<modelsLoaded, modelLoadingPromise, awaiting, loadCalls, netLoads,
                   loading, scannerVars, enrollVars>>

NextDistance == measure

SpecDistance == InitDistance /\ [][NextDistance]_vars

\* queries and stored descriptors with ties (<<5, 0>> is as far from
\* <<0, 0>> as from <<10, 0>>) and thresholds on both sides of a distance
Queries == {<<0, 0>>, <<5, 0>>, <<3, 0>>}
Stored == {<<0, 0>>, <<10, 0>>, <<3, 4>>}
Thresholds == {16, 24, 25}

\* the galleries: student i at place i
Galleries ==
    {[i \in 1..Len(ds) |-> [id |-> i, descriptor |-> ds[i]]] :
        ds \in SeqsUpTo(Stored, MaxGallery)}

InitMatch ==
    /\ ScannerInit(<<1, 2>>) /\ FaceInit /\ EnrollInit
    /\ codecIn = <<>>
    /\ codecText = <<>>
    /\ codecOut = <<>>
    /\ distIn = [a |-> <<>>, b |-> <<>>]
    /\ distOut = <<>>
    /\ matchIn \in [query : Queries, knowns : Galleries, threshold : Thresholds]
    /\ matchOut = <<>>

\* a call of findBestMatch, as the scan loop makes it at line 657
match ==
    /\ matchOut = <<>>
    /\ matchOut' = <<findBestMatch(matchIn.query, matchIn.knowns, matchIn.threshold)>>
    /\ UNCHANGED <<codecIn, codecText, codecOut, distIn, distOut, matchIn>>
    /\ UNCHANGED <<modelsLoaded, modelLoadingPromise, awaiting, loadCalls, netLoads,
                   loading, scannerVars, enrollVars>>

NextMatch == match

SpecMatch == InitMatch /\ [][NextMatch]_vars

(***************************************************************************)
(* StudentEnrollment: the steps                                            *)
(***************************************************************************)
CameraSteps == {"position", "capture", "angles"}

\* a switch whose angles case goes past the review step
nextOfPastReview(step) ==
    CASE step = "info" -> "position"
      [] step = "position" -> "capture"
      [] step = "capture" -> "angles"
      [] step = "angles" -> "complete"
      [] OTHER -> step

\* the switch of nextStep, lines 204-231
nextOf(step) ==
    CASE step = "info" -> "position"
      [] step = "position" -> "capture"
      [] step = "capture" -> "angles"
      [] step = "angles" -> "review"
      [] step = "review" -> "complete"
      [] OTHER -> step

\* consecutive detections that start the countdown, line 77, and its length, line 80
stableAfter == 3
countdownFrom == 3

\* the render after setCurrentStep(to) and the effects that depend on
\* currentStep: the two auto-capture effects (lines 138-159) clear their timer
\* and arm it with the functions of this render; the detection effect (lines
\* 115-124) clears the face state outside the camera steps.  A step set to
\* what it is renders nothing.
enterStep(to, face) ==
    /\ currentStep' = to
    /\ IF to = currentStep
       THEN /\ UNCHANGED <<captureTimer, anglesTimer>>
            /\ faceDetected' = face
       ELSE /\ captureTimer' = IF to = "capture" /\ ~isCapturing
                                THEN (IF descriptorB64 # <<>> THEN "has" ELSE "empty")
                                ELSE "off"
            /\ anglesTimer' = IF to = "angles" /\ ~isCapturing
                               THEN (IF face THEN "face" ELSE "noFace")
                               ELSE "off"
            /\ faceDetected' = IF to \in CameraSteps THEN face ELSE FALSE

\* nextStep, lines 194-233, as the function of a render whose currentStep
\* was `from`, and the render that follows
nextStep(from) ==
    /\ stableFaceCount' = 0
    /\ autoMoveCountdown' = 0
    /\ enterStep(nextOf(from), faceDetected)

\* the Next buttons of the info step (lines 513-514, with the two fields
\* filled in) and of the position step (lines 620-621)
clickNext ==
    /\ \/ currentStep = "info"
       \/ currentStep = "position" /\ faceDetected /\ autoMoveCountdown = 0
    /\ nextStep(currentStep)
    /\ UNCHANGED <<isCapturing, descriptorB64, descriptorFrom, checks, intervals, capturing,
                   nextTimers, persistVars, faceVars, scannerVars>>

\* what a call of checkFaceDetection closed over, as far as it reads it
\* after its await (lines 74, 80, 95)
checkClosure ==
    IF currentStep # "position" THEN "other"
    ELSE IF autoMoveCountdown = 0 THEN "position0" ELSE "position"

checksPending == checks["position0"] + checks["position"] + checks["other"]

\* the interval of lines 115-119 calls checkFaceDetection, lines 53-57, up to
\* the await of detectSingleFaceDescriptor
checkFaceDetection ==
    /\ currentStep \in CameraSteps
    /\ ~isCapturing
    /\ checksPending < MaxChecks
    /\ checks' = [checks EXCEPT ![checkClosure] = @ + 1]
    /\ UNCHANGED <<currentStep, stableFaceCount, autoMoveCountdown, faceDetected,
                   isCapturing, descriptorB64, descriptorFrom, intervals, captureTimer,
                   anglesTimer, capturing, nextTimers, persistVars, faceVars,
                   scannerVars>>

\* the rest of checkFaceDetection, lines 57-111, for a call that closed over
\* c: with a face, without one, or with an exception (which is as no face)
checkSettled(c, hasFace) ==
    /\ checks[c] > 0
    /\ checks' = [checks EXCEPT ![c] = @ - 1]
    /\ faceDetected' = hasFace
    /\ IF c = "other"
       THEN UNCHANGED <<stableFaceCount, autoMoveCountdown, intervals>>
       ELSE IF hasFace
       THEN LET newCount == Min(stableFaceCount + 1, stableAfter)
            IN /\ stableFaceCount' = newCount
               /\ IF newCount >= stableAfter /\ c = "position0"
                  THEN /\ intervals < MaxIntervals
                       /\ intervals' = intervals + 1
                       /\ autoMoveCountdown' = countdownFrom
                  ELSE UNCHANGED <<autoMoveCountdown, intervals>>
       ELSE /\ stableFaceCount' = 0
            /\ autoMoveCountdown' = 0
            /\ UNCHANGED intervals
    /\ UNCHANGED <<currentStep, isCapturing, descriptorB64, descriptorFrom, captureTimer,
                   anglesTimer, capturing, nextTimers, persistVars, faceVars,
                   scannerVars>>

\* one tick of a countdown interval, lines 81-90: its nextStep is the one of
\* the render that made the checkFaceDetection which started it, a render of
\* the position step
countdownTick ==
    /\ intervals > 0
    /\ IF autoMoveCountdown <= 1
       THEN /\ intervals' = intervals - 1
            /\ nextStep("position")
       ELSE /\ autoMoveCountdown' = autoMoveCountdown - 1
            /\ UNCHANGED <<intervals, currentStep, stableFaceCount, faceDetected,
                           captureTimer, anglesTimer>>
    /\ UNCHANGED <<isCapturing, descriptorB64, descriptorFrom, checks, capturing, nextTimers,
                   persistVars, faceVars, scannerVars>>

\* the timer of lines 142-144 calls captureDescriptor, lines 235-246: the
\* function of the render that entered the capture step
captureTimerFires ==
    /\ captureTimer # "off"
    /\ captureTimer' = "off"
    /\ IF captureTimer = "empty"
       THEN isCapturing' = TRUE /\ capturing' = "descriptor"
       ELSE UNCHANGED <<isCapturing, capturing>>
    /\ UNCHANGED <<currentStep, stableFaceCount, autoMoveCountdown, faceDetected,
                   descriptorB64, descriptorFrom, checks, intervals, anglesTimer, nextTimers,
                   persistVars, faceVars, scannerVars>>

\* what the nets may find in the frame of a capture: no face (<<>>, which
\* also stands for an exception), a face with a finite descriptor, a face
\* whose descriptor has no finite element
Detected == {<<>>, <<Tenth, MinusHalf>>, <<QuietNaN, Infinity>>}

\* lines 260-292 of captureDescriptor: detectSingleFaceDescriptor returns
\* null or the descriptor with its invalid values replaced, and the
\* descriptor is encoded; threw stands for every way to no text
captureText(detection) ==
    IF detection = <<>> THEN [threw |-> TRUE, text |-> <<>>]
    ELSE float32ToBase64Simple(cleanDescriptor(detection))

\* the rest of captureDescriptor, lines 247-323: a descriptor, and the timer
\* that will call nextStep; or no face, or an exception
captureSettled(detection) ==
    /\ capturing = "descriptor"
    /\ capturing' = "no"
    /\ isCapturing' = FALSE
    /\ descriptorFrom' = IF captureText(detection).threw THEN descriptorFrom
                         ELSE "capture"
    /\ descriptorB64' = IF captureText(detection).threw THEN descriptorB64
                        ELSE captureText(detection).text
    /\ nextTimers' = IF captureText(detection).threw THEN nextTimers
                      ELSE [nextTimers EXCEPT !["capture"] = @ + 1]
    /\ UNCHANGED <<currentStep, stableFaceCount, autoMoveCountdown, faceDetected,
                   checks, intervals, captureTimer, anglesTimer, persistVars,
                   faceVars, scannerVars>>

\* the timer of lines 155-157 calls captureAngles, lines 327-336
anglesTimerFires ==
    /\ anglesTimer # "off"
    /\ anglesTimer' = "off"
    /\ IF anglesTimer = "face"
       THEN isCapturing' = TRUE /\ capturing' = "angles"
       ELSE UNCHANGED <<isCapturing, capturing>>
    /\ UNCHANGED <<currentStep, stableFaceCount, autoMoveCountdown, faceDetected,
                   descriptorB64, descriptorFrom, checks, intervals, captureTimer, nextTimers,
                   persistVars, faceVars, scannerVars>>

\* the rest of captureAngles, lines 338-371
anglesSettled ==
    /\ capturing = "angles"
    /\ capturing' = "no"
    /\ isCapturing' = FALSE
    /\ nextTimers' = [nextTimers EXCEPT !["angles"] = @ + 1]
    /\ UNCHANGED <<currentStep, stableFaceCount, autoMoveCountdown, faceDetected,
                   descriptorB64, descriptorFrom, checks, intervals, captureTimer, anglesTimer,
                   persistVars, faceVars, scannerVars>>

\* setTimeout(() => nextStep(), ...) of lines 309-311 and 368-370
nextTimerFires(from) ==
    /\ nextTimers[from] > 0
    /\ nextTimers' = [nextTimers EXCEPT ![from] = @ - 1]
    /\ nextStep(from)
    /\ UNCHANGED <<isCapturing, descriptorB64, descriptorFrom, checks, intervals, capturing,
                   persistVars, faceVars, scannerVars>>

(***************************************************************************)
(* StudentEnrollment: saving                                               *)
(***************************************************************************)
\* the Complete Enrollment button is disabled, line 883
persistDisabled ==
    isCapturing \/ descriptorB64 = <<>> \/ isSaving \/ enrollmentCompleted

\* the early returns of persistStudentAndEnrollment, lines 386-398, with a
\* class and a signed-in user
persistIgnored == descriptorB64 = <<>> \/ isSaving \/ enrollmentCompleted

\* a click that starts a run whatever is going on
persistStartsAlways == TRUE

\* a click on Complete Enrollment starts a run
persistStarts == ~persistDisabled /\ ~persistIgnored

\* the click, lines 875-882, and persistStudentAndEnrollment, lines 384-403,
\* up to its first await
clickComplete ==
    /\ currentStep = "review"
    /\ Len(persists) < MaxPersists
    /\ persistStarts
    /\ isSaving' = TRUE
    /\ persists' = Append(persists, [pc |-> "profile", key |-> studentKey,
                                     facial_id |-> descriptorB64])
    /\ UNCHANGED <<wizardVars, enrollmentCompleted, studentKey, studentRows,
                   facialIds, enrollmentRows, toastTitle, faceVars, scannerVars>>

\* the catch and the finally of lines 463-474
persistFailed(i) ==
    /\ persists' = Remove(persists, i)
    /\ toastTitle' = "Save failed"
    /\ isSaving' = FALSE
    /\ UNCHANGED <<wizardVars, enrollmentCompleted, studentKey>>

\* UNIQUE(student_id) of students, UNIQUE(class_id, student_id) of enrollments
Taken(rows, key) == key \in rows

\* one await of the i-th run, lines 405-462, ended: the profile query, the
\* insert of the student, the insert of the enrollment, the wait of 1 s
persistSettled(i, ok) ==
    /\ i \in 1..Len(persists)
    /\ LET run == persists[i]
       IN CASE run.pc = "profile" ->
                 /\ UNCHANGED <<studentRows, facialIds, enrollmentRows>>
                 /\ IF ok
                    THEN /\ persists' = [persists EXCEPT ![i].pc = "create"]
                         /\ UNCHANGED <<wizardVars, isSaving, enrollmentCompleted,
                                        studentKey, toastTitle>>
                    ELSE persistFailed(i)
            [] run.pc = "create" ->
                 /\ UNCHANGED enrollmentRows
                 /\ IF ok /\ ~Taken(studentRows, run.key)
                    THEN /\ studentRows' = studentRows \cup {run.key}
                         /\ facialIds' = HistSet(facialIds, run.key, run.facial_id)
                         /\ persists' = [persists EXCEPT ![i].pc = "enroll"]
                         /\ UNCHANGED <<wizardVars, isSaving, enrollmentCompleted,
                                        studentKey, toastTitle>>
                    ELSE /\ UNCHANGED <<studentRows, facialIds>>
                         /\ persistFailed(i)
            [] run.pc = "enroll" ->
                 /\ UNCHANGED <<studentRows, facialIds>>
                 /\ IF ok /\ ~Taken(enrollmentRows, run.key)
                    THEN /\ enrollmentRows' = enrollmentRows \cup {run.key}
                         /\ persists' = [persists EXCEPT ![i].pc = "wait"]
                         /\ UNCHANGED <<wizardVars, isSaving, enrollmentCompleted,
                                        studentKey, toastTitle>>
                    ELSE /\ UNCHANGED enrollmentRows
                         /\ persistFailed(i)
            [] run.pc = "wait" ->
                 /\ ok
                 /\ persists' = Remove(persists, i)
                 /\ enrollmentCompleted' = TRUE
                 /\ toastTitle' = "Enrollment complete"
                 /\ isSaving' = FALSE
                 /\ enterStep("complete", FALSE)
                 /\ UNCHANGED <<stableFaceCount, autoMoveCountdown, isCapturing,
                                descriptorB64, descriptorFrom, checks, intervals, capturing,
                                nextTimers, studentKey, studentRows,
                                facialIds, enrollmentRows>>
    /\ UNCHANGED <<faceVars, scannerVars>>

\* Enroll Another Student, lines 920-925, with another id typed in
enrollAnother ==
    /\ currentStep = "complete"
    /\ studentKey < MaxEnrollments
    /\ studentKey' = studentKey + 1
    /\ descriptorB64' = <<>>
    /\ descriptorFrom' = "none"
    /\ captureTimer' = "off"
    /\ anglesTimer' = "off"
    /\ currentStep' = "info"
    /\ faceDetected' = FALSE
    /\ UNCHANGED <<stableFaceCount, autoMoveCountdown, isCapturing, checks,
                   intervals, capturing, nextTimers, isSaving,
                   enrollmentCompleted, persists, studentRows, facialIds,
                   enrollmentRows,
                   toastTitle, faceVars, scannerVars>>

NextEnroll ==
    \/ clickNext
    \/ checkFaceDetection
    \/ \E c \in {"position0", "position", "other"} : \E hasFace \in BOOLEAN :
          checkSettled(c, hasFace)
    \/ countdownTick
    \/ captureTimerFires
    \/ \E detection \in Detected : captureSettled(detection)
    \/ anglesTimerFires
    \/ anglesSettled
    \/ \E from \in {"capture", "angles"} : nextTimerFires(from)
    \/ clickComplete
    \/ \E i \in 1..MaxPersists : \E ok \in BOOLEAN : persistSettled(i, ok)
    \/ enrollAnother

SpecEnroll == Init /\ [][NextEnroll]_vars

\* what detectMultipleFaces may resolve with: no face (also a failure or a
\* timeout, face.ts lines 300-303), or the two students side by side
Frames == { <<>>, <<Face(0, dA), Face(200, dB)>> }

loop == loopWithin(MaxInFlight, MaxDetections)

\* a scan session: the camera, the loop, the manual marks and the completion
Next ==
    \/ startScanning
    \/ cameraStarted
    \/ loop
    \/ \E i \in 1..MaxInFlight : \E frame \in Frames : detectionResolved(i, frame)
    \/ \E studentId \in Students : toggleManualAttendance(studentId)
    \/ completeScan
    \/ unmount

Spec == Init /\ [][Next]_vars

(***************************************************************************)
(* Completion against the store: the camera is refused, the teacher marks  *)
(* by hand, completes, the store calls succeed or fail, and the scanner is *)
(* opened again for the same class and date.                               *)
(***************************************************************************)
NextStore ==
    \/ startScanning
    \/ cameraFailed
    \/ \E studentId \in Students : toggleManualAttendance(studentId)
    \/ completeScan
    \/ storeSucceeded
    \/ storeFailed
    \/ openScanner

SpecStore == Init /\ [][NextStore]_vars

(***************************************************************************)
(* The tracker: one enrolled student in front of the camera, who stays or  *)
(* moves by 20 to 80 px between passes; detection calls do not overlap.    *)
(***************************************************************************)
TrackFrames == { <<Face(x, dA)>> : x \in {0, 40, 60, 80} }

loopTrack == loopWithin(1, TrackDetections)

NextTrack ==
    \/ startScanning
    \/ cameraStarted
    \/ loopTrack
    \/ \E frame \in TrackFrames : detectionResolved(1, frame)
    \/ \E outcome \in Failures : detectionFailed(1, outcome)

SpecTrack == InitWith(<<1>>) /\ [][NextTrack]_vars

(***************************************************************************)
(* End to end: one enrolled student, every pass yields their face, nobody  *)
(* touches the page after Start.  The browser runs every animation frame   *)
(* callback it was asked for and detectMultipleFaces always settles (its   *)
(* own timeout is 2 s), hence the weak fairness of the four steps.         *)
(* detectionResolved is enabled exactly when the page is mounted and a     *)
(* call is pending, and it always advances `now`; its weak fairness is     *)
(* written out with that enabling condition.                               *)
(***************************************************************************)
ScenarioFrames == { <<Face(0, dA)>> }

loopScenario == loopWithin(MaxInFlight, ScenarioDetections)

resolveScenario == \E i \in 1..MaxInFlight : \E frame \in ScenarioFrames : detectionResolved(i, frame)

NextE2E ==
    \/ startScanning
    \/ cameraStarted
    \/ loopScenario
    \/ resolveScenario

resolveEnabled == mounted /\ inFlight # <<>>

resolveFair == []<>(~resolveEnabled) \/ []<><<resolveScenario>>_vars

SpecE2E ==
    /\ InitWith(<<1>>)
    /\ [][NextE2E]_vars
    /\ WF_vars(startScanning)
    /\ WF_vars(cameraStarted)
    /\ WF_vars(loopScenario)
    /\ resolveFair

(***************************************************************************)
(* A class of one student, whose face is in every frame, with the manual   *)
(* marks and the completion                                                *)
(***************************************************************************)
loopOne == loopWithin(1, MaxDetections)

NextOne ==
    \/ startScanning
    \/ cameraStarted
    \/ loopOne
    \/ \E frame \in ScenarioFrames : detectionResolved(1, frame)
    \/ \E studentId \in Students : toggleManualAttendance(studentId)
    \/ completeScan

SpecOne == InitWith(<<1>>) /\ [][NextOne]_vars

(***************************************************************************)
(* A class of two students: the face of student 1 is in every frame,      *)
(* student 2 is not in front of the camera and is marked by hand           *)
(***************************************************************************)
NextAbsentee ==
    \/ startScanning
    \/ cameraStarted
    \/ loopOne
    \/ \E frame \in ScenarioFrames : detectionResolved(1, frame)
    \/ \E studentId \in Students : toggleManualAttendance(studentId)

SpecAbsentee == Init /\ [][NextAbsentee]_vars

(***************************************************************************)
(* A class of one student, whose face is in every frame, and whose manual  *)
(* mark the teacher takes round: unset, present, absent, unset             *)
(***************************************************************************)
NextMarks ==
    \/ startScanning
    \/ cameraStarted
    \/ loopOne
    \/ \E frame \in ScenarioFrames : detectionResolved(1, frame)
    \/ \E studentId \in Students : toggleWithin(studentId, MaxMarks)

SpecMarks == InitWith(<<1>>) /\ [][NextMarks]_vars

(***************************************************************************)
(* A class of two students in front of a camera that sees two faces: the   *)
(* two students, or student 1 and a face that matches student 1 as well    *)
(***************************************************************************)
TwinFrames == { <<Face(0, dA), Face(200, dB)>>, <<Face(0, dA), Face(200, dA)>> }

NextTwins ==
    \/ startScanning
    \/ cameraStarted
    \/ loopTrack
    \/ \E frame \in TwinFrames : detectionResolved(1, frame)

SpecTwins == Init /\ [][NextTwins]_vars

(***************************************************************************)
(* The camera of a scan session: granted or refused, switched, released    *)
(* by a completion or dropped with the page                                *)
(***************************************************************************)
NextCamera ==
    \/ startScanning
    \/ cameraStarted
    \/ cameraFailed
    \/ switchCamera
    \/ restartScanning
    \/ \E studentId \in Students : toggleManualAttendance(studentId)
    \/ completeScan
    \/ storeFailed
    \/ unmount

SpecCamera == Init /\ [][NextCamera]_vars

(***************************************************************************)
(* Properties                                                              *)
(***************************************************************************)
\* a step that clicks Complete Scan
CompleteStep == pc = "idle" /\ pc' = "deleteSessions"

\* a step that clicks a row of the Manual Override list
ToggleStep == toggles' = toggles + 1

\* a step in which the detection of iteration i resolves
ResolveStep(i) == \E frame \in Frames : detectionResolved(i, frame)

\* C1: at completion a student marked present by hand is final present, one
\* marked absent by hand is final absent even if recognized, and one with no
\* mark (or the mark cleared) is final present exactly if in the recognized set
C1_OutcomePrecedence ==
    [][CompleteStep =>
         \A s \in Enrolled :
            /\ s \in finalPresentIds' \/ s \in finalAbsentIds'
            /\ ~(s \in finalPresentIds' /\ s \in finalAbsentIds')
            /\ manualAttendance[s] = "present" => s \in finalPresentIds'
            /\ manualAttendance[s] = "absent" => s \in finalAbsentIds'
            /\ manualAttendance[s] \in {"undefined", "unset"} =>
                  (s \in finalPresentIds' <=> s \in recognizedIds)]_vars

\* completion was clicked with a recognized student marked absent by hand,
\* another one recognized and not marked
C1_Witness ==
    /\ pc = "deleteSessions"
    /\ \E s, t \in Enrolled :
          /\ manualAttendance[s] = "absent" /\ s \in recognizedIds
          /\ s \in finalAbsentIds
          /\ manualAttendance[t] = "undefined" /\ t \in recognizedIds
          /\ t \in finalPresentIds

\* C2: the displayed count is the size of the recognized set in every state
C2_CountIsSize == mounted => recognizedCount = Cardinality(recognizedIds)

\* a recognition pass and a manual mark have both changed the set
C2_Witness ==
    /\ recognizedCount = 1
    /\ detectedFaces # <<>>
    /\ \E s \in Enrolled : manualAttendance[s] = "absent" /\ s \notin recognizedIds
    /\ \E t \in Enrolled : manualAttendance[t] = "undefined" /\ t \in recognizedIds

\* the detection calls of the running loop that have not resolved
Pending == {i \in 1..Len(inFlight) : ~inFlight[i].cancelled}

\* C3: no two detection calls of the scan loop are in flight at the same time
C3_Sequential == Cardinality(Pending) <= 1

\* C4: a detection call that resolves after its effect was cleaned up changes
\* none of the tracked faces, the position history, the overlays, the
\* recognized set and the count
C4_CancelledAppliesNothing ==
    [][\A i \in 1..MaxInFlight :
          (ResolveStep(i) /\ inFlight[i].cancelled) =>
             UNCHANGED <<trackVars, countVars>>]_vars

RecordsOf(s) == {r \in records : r.student_id = s}

Recognized == recognizedIds = {1} /\ recognizedCount = 1

\* C7: with one enrolled student whose face every pass yields and no manual
\* action, the student is eventually recognized and the count, once 1, is 1
\* in every later state
C7_EventuallyRecognized ==
    /\ <>[]Recognized
    /\ [][Recognized => Recognized']_vars

\* the student was recognized and every later pass of the scenario has run
C7_Witness ==
    /\ Recognized
    /\ detections = ScenarioDetections
    /\ inFlight = <<>>
    /\ trackedFaces # <<>>

\* a step in which a detection pass with one valid face has called
\* setTrackedFaces
OneFaceStep == now' = now + 1 /\ applied' = now' /\ Len(lastFrame') = 1

\* the centre of face f is less than half its smaller dimension from the
\* centre of face g (both sides four times squared)
Near(g, f) ==
    calculateFaceDistance(g.box, f.box)
       < Min(f.box.width, f.box.height) * Min(f.box.width, f.box.height)

\* a pass with one face follows a pass with one face, which moved little
ContinuedStep ==
    /\ OneFaceStep
    /\ Len(lastFrame) = 1
    /\ Len(trackedFaces) = 1
    /\ Near(lastFrame[1], lastFrame'[1])

\* C8: a face that moves by less than half its smaller dimension between
\* two consecutive passes keeps its track id: the second pass stores it under
\* the id the first pass left it with, not under a new provisional id
C8_TrackIdRetained ==
    [][ContinuedStep =>
         /\ Len(trackedFaces') = 1
         /\ trackedFaces'[1].key = trackedFaces[1].face.id]_vars

\* C9: after the k-th consecutive pass on the single track, k > 1, its
\* displayed position is the mean of the last min(k, 5) positions fed to it
C9_SmoothingIsMean ==
    [][(OneFaceStep /\ Len(fed') > 1) =>
         trackedFaces'[1].face.position = Mean(LastN(fed', maxHistory))]_vars

\* C10: a track marked recognized is not unrecognized after the next pass
\* on the same track id
C10_RecognitionMonotonic ==
    [][ContinuedStep =>
         \A j \in 1..Len(trackedFaces') :
            (/\ trackedFaces[1].face.isRecognized
             /\ trackedFaces'[j].face.id = trackedFaces[1].face.id)
               => trackedFaces'[j].face.isRecognized]_vars

(***************************************************************************)
(* Failing detection passes                                                *)
(***************************************************************************)
\* the step of a detection pass that failed
FailedStep == failures' = failures + 1

\* C11: when maxErrors detection passes in a row have failed, by an
\* exception or by the timeout, the loop is stopped and the status is 'failed'
C11_FailuresEscalate ==
    failures >= maxErrors => (eff.cancelled /\ recognitionStatus = "failed")

\* C12: a pass whose detection fails is not an error outside the detector
\* or the loop body: detectMultipleFaces resolves, the pass has no face, shows
\* no face, is no 'failed' status, and the loop stays scheduled
C12_FailureIsZeroFaces ==
    [][FailedStep =>
         /\ \A outcome \in Failures : ~detectMultipleFaces(outcome, <<>>).rejected
         /\ lastFrame' = <<>>
         /\ detectedFaces' = <<>>
         /\ recognitionStatus' = "idle"
         /\ eff'.raf /\ ~eff'.cancelled /\ eff'.errorCount = 0]_vars

C12_Witness ==
    /\ failures = 1
    /\ detections >= 2
    /\ trackedFaces # <<>>
    /\ detectedFaces = <<>>
    /\ eff.raf

(***************************************************************************)
(* What a completion persists                                              *)
(***************************************************************************)
\* C13: a completion is triggered only with a student present from one of
\* the two sources, so the outcome it persists has a present student
C13_CompletionHasPresent == [][CompleteStep => finalPresentIds' # {}]_vars

(***************************************************************************)
(* The camera stream                                                       *)
(***************************************************************************)
\* C14: the camera stream has one owner and does not leak: while the
\* scanner is on the page, the streams whose tracks are not stopped are the
\* one the rendered video shows, if it shows one, and no other
C14_StreamOwned == mounted => liveStreams = IF srcObject = "live" THEN 1 ELSE 0

\* C15: once a completion is triggered the scan is stopped: while the
\* attendance is being saved there are no tracked faces, no position
\* history and no faces on the screen
C15_StoppedScanIsEmpty ==
    (mounted /\ isCompleting) =>
        /\ trackedFaces = <<>>
        /\ facePositionHistory = EmptyMap
        /\ detectedFaces = <<>>

\* C16: a session whose camera could not be acquired is not scanning
C16_FailedCameraNotScanning == (mounted /\ cameraError) => ~isScanning

(***************************************************************************)
(* Loading the models                                                      *)
(***************************************************************************)
\* C17: calls of loadFaceModels and preloadFaceModels that overlap share
\* one load of the nets, and no call loads again once the models are loaded
C17_OneLoad ==
    [][/\ loading' <= 1
       /\ modelsLoaded => netLoads' = netLoads]_vars

C17_Witness ==
    /\ awaiting >= 2
    /\ loadCalls >= 3
    /\ netLoads = 1
    /\ loading = 1

(***************************************************************************)
(* Enrollment                                                              *)
(***************************************************************************)
\* C18: every change of the enrollment step goes to the next step of
\* info, position, capture, angles, review, complete, or back to info
C18_StepsLinear ==
    [][currentStep' # currentStep =>
         \/ currentStep' = nextOf(currentStep)
         \/ currentStep' = "info"]_vars

\* C19: a persist run that is going on keeps every further trigger out, so
\* there is never more than one run, hence never more than one create-student
\* call in flight; and the step that completes an enrollment leaves one
\* student row and one enrollment row, those of the student being enrolled
C19_OnePersist ==
    [][/\ Len(persists') <= 1
       /\ (~enrollmentCompleted /\ enrollmentCompleted') =>
             /\ studentRows' = {studentKey}
             /\ enrollmentRows' = {studentKey}]_vars

C19_Witness ==
    /\ currentStep = "review"
    /\ Len(persists) = 1
    /\ persists[1].pc = "create"
    /\ isSaving
    /\ persistDisabled
    /\ toastTitle = "Save failed"

\* the student of this enrollment is stored and is not enrolled, and no run
\* is going on
CreatedNotEnrolled ==
    /\ persists = <<>>
    /\ studentKey \in studentRows
    /\ studentKey \notin enrollmentRows

\* C20: after a run that created the student and failed to enroll them,
\* what the page shows is not what it shows when no student was created
C20_PartialFailureShown == CreatedNotEnrolled => toastTitle # "Save failed"

\* a click on Enroll Another Student
EnrollAnotherStep == currentStep = "complete" /\ currentStep' = "info"

\* C21: Enroll Another Student puts the local state of the enrollment back
\* to what the first render had: the info step, no descriptor, not saving,
\* not completed, no capture timer armed
C21_EnrollAnotherResets ==
    [][EnrollAnotherStep =>
         /\ currentStep' = "info"
         /\ descriptorB64' = <<>>
         /\ ~isSaving'
         /\ ~enrollmentCompleted'
         /\ captureTimer' = "off" /\ anglesTimer' = "off"]_vars

\* the capture step, with no descriptor and no capture going on
CaptureIdle == currentStep = "capture" /\ descriptorB64 = <<>> /\ capturing = "no"

\* C22: a capture that found no face leaves the capture step with no
\* descriptor and with a way to capture again: whenever the step is shown
\* with no descriptor and no capture going on, a capture attempt is armed
C22_CaptureCanRetry == CaptureIdle => captureTimer = "empty"

(***************************************************************************)
(* The codec, the distance and the matcher                                 *)
(***************************************************************************)
\* every element is a finite number
Finite(floats) == \A i \in 1..Len(floats) : IsValid(floats[i])

Nearest(q, entries) ==
    CHOOSE i \in 1..Len(entries) :
       /\ \A j \in 1..Len(entries) :
             computeEuclideanDistance(q, entries[i].descriptor)
                <= computeEuclideanDistance(q, entries[j].descriptor)
       /\ \A j \in 1..(i - 1) :
             computeEuclideanDistance(q, entries[j].descriptor)
                > computeEuclideanDistance(q, entries[i].descriptor)

\* the reference matcher: the nearest entry, the first of several, if it is
\* not farther than the threshold, and no match otherwise
ReferenceMatch(q, entries, t) ==
    IF entries = <<>> THEN <<>>
    ELSE IF computeEuclideanDistance(q, entries[Nearest(q, entries)].descriptor) <= t
    THEN <<[id |-> entries[Nearest(q, entries)].id,
            distance |-> computeEuclideanDistance(q, entries[Nearest(q, entries)].descriptor)]>>
    ELSE <<>>

\* C24: for every query, gallery and threshold, findBestMatch returns what
\* the reference matcher returns: the first entry at the least distance when
\* that distance is at most the threshold, nothing otherwise and nothing for
\* an empty gallery
C24_MatchesReference ==
    matchOut # <<>> =>
       /\ matchOut[1] = ReferenceMatch(matchIn.query, matchIn.knowns, matchIn.threshold)
       /\ matchIn.knowns = <<>> => matchOut[1] = <<>>

\* two entries at the same distance, which is the threshold: the first is returned
C24_Witness ==
    /\ matchIn.query = <<5, 0>>
    /\ Len(matchIn.knowns) = 3
    /\ matchIn.knowns[1].descriptor = <<10, 0>>
    /\ matchIn.knowns[2].descriptor = <<0, 0>>
    /\ matchIn.threshold = 25
    /\ matchOut = << <<[id |-> 1, distance |-> 25]>> >>

\* C26: a call of the distance with two descriptors of different lengths
\* fails, and a call returns a number only for two of the same length
C26_DistanceChecksDimensions ==
    distOut # <<>> =>
       /\ Len(distIn.a) # Len(distIn.b) => distOut[1].threw
       /\ (~distOut[1].threw /\ distOut[1].value # NaN) => Len(distIn.a) = Len(distIn.b)

\* the descriptor that a stored facial_id decodes to has no element but 0
Zeroed(text) ==
    \A i \in 1..Len(base64ToFloat32Simple(text).floats) :
       base64ToFloat32Simple(text).floats[i] = Zero

\* C25: no student is stored with the encoding of a descriptor that is 0
\* in every element: a capture whose descriptor has no valid element is a
\* failed capture and leaves no text to persist
C25_NoZeroedDescriptor ==
    /\ ~Zeroed(descriptorB64) \/ descriptorB64 = <<>>
    /\ \A k \in studentRows : ~Zeroed(facialIds[k])

(***************************************************************************)
(* The passes of the scan loop                                             *)
(***************************************************************************)
\* C27: the recognition runs in the continuation of a detection call that
\* has completed, once at most, and only for a call started in a frame with
\* shouldRecognize; so there are never more recognition passes than
\* detection calls in such frames, than detection calls completed, than
\* detection calls started
C27_RecognitionFollowsDetection ==
    [][/\ recognitions' # recognitions =>
             /\ recognitions' = recognitions + 1
             /\ now' = now + 1
             /\ inFlight # <<>>
       /\ recognitions' <= recognizeDue'
       /\ recognizeDue' <= detections'
       /\ recognitions' <= now'
       /\ now' <= detections']_vars

\* a detection pass without recognition, then one with it, which
\* recognized a student
C27_Witness ==
    /\ detections = 2
    /\ now = 2
    /\ recognizeDue = 1
    /\ recognitions = 1
    /\ recognizedIds # {}

\* a pass with one face follows a state with one track, and the face is
\* within the association radius of that track as line 272-275 measures it
WithinRadiusStep ==
    /\ OneFaceStep
    /\ Len(trackedFaces) = 1
    /\ calculateFaceDistance(lastFrame'[1].box, trackedFaces[1].face.position)
         < Min(lastFrame'[1].box.width, lastFrame'[1].box.height)
             * Min(lastFrame'[1].box.width, lastFrame'[1].box.height)

\* C28: while the face of a track that is marked recognized keeps being
\* detected within the association radius of that track, no pass gives
\* that face to findBestMatch
C28_RecognizedNotResubmitted ==
    [][(WithinRadiusStep /\ trackedFaces[1].face.isRecognized) => matcherCalls' = 0]_vars

\* a pending detection call ends and its iteration runs: no pending
\* iteration belongs to an effect that was cleaned up
LivePassStep ==
    /\ now' = now + 1
    /\ \A j \in 1..Len(inFlight) : ~inFlight[j].cancelled

\* C29: after each detection pass the tracked faces are the tracks of that
\* pass's valid detections, one per detection: a track that no detection
\* matched is gone, and a pass without valid detections leaves no track
C29_TracksFollowDetections ==
    [][LivePassStep =>
         /\ Len(trackedFaces') = Len(lastFrame')
         /\ lastFrame' = <<>> => trackedFaces' = <<>>]_vars

\* the ids of the tracked faces: the keys of the map and the ids of its faces
TrackedIds ==
    {trackedFaces[i].key : i \in 1..Len(trackedFaces)}
       \cup {trackedFaces[i].face.id : i \in 1..Len(trackedFaces)}

\* C30: a position history exists only for a face that is tracked, and
\* holds at most maxHistory positions
C30_HistoryFollowsTracks ==
    /\ DOMAIN facePositionHistory \subseteq TrackedIds
    /\ \A k \in DOMAIN facePositionHistory : Len(facePositionHistory[k]) <= maxHistory

\* a tick of a countdown interval calls nextStep: the automatic advance
AutoAdvanceStep == intervals' = intervals - 1

\* C31: the automatic advance from position to capture happens only while
\* the stability counter stands at stableAfter consecutive face-detected
\* checks and the last check found a face: a check without a face resets
\* the counter and cancels the countdown that was running
C31_AdvanceOnlyWhenStable ==
    [][AutoAdvanceStep => (stableFaceCount >= stableAfter /\ faceDetected)]_vars

\* captureAngles returns: the capture of the angles step is done
AnglesCaptureStep == capturing = "angles" /\ capturing' = "no"

\* C32: the capture of the angles step writes the descriptor, over the one of
\* the capture step, and a run of persistStudentAndEnrollment started after
\* it stores the descriptor the angles step wrote
C32_LastCaptureWins ==
    [][/\ AnglesCaptureStep => descriptorFrom' = "angles"
       /\ Len(persists') > Len(persists) => descriptorFrom = "angles"]_vars

\* the teacher toggles the manual mark of student s
ToggleOf(s) == toggles' = toggles + 1 /\ manualAttendance'[s] # manualAttendance[s]

\* C33: while the scanner stays open, a student leaves the recognized set
\* only by a manual toggle of that same student: no loop iteration and no
\* toggle of another student removes a member
C33_NoLostRecognition ==
    [][(mounted /\ mounted') =>
          \A s \in Students :
             (s \in recognizedIds /\ s \notin recognizedIds') => ToggleOf(s)]_vars

\* the third toggle of a round of student s, from 'absent' to 'unset', with
\* no detection pass ended since the first one
ThirdToggleOf(s) ==
    /\ ToggleOf(s)
    /\ manualAttendance[s] = "absent"
    /\ markCycle[s].at = now

\* C34: three consecutive toggles of one student are a round trip: the mark
\* is 'unset' again, and the student is in the recognized set, and so present
\* at completion, exactly if it was before the first toggle
C34_ToggleRoundTrip ==
    [][\A s \in Students :
          ThirdToggleOf(s) =>
             /\ ManualOf(s)' = "unset"
             /\ (s \in recognizedIds') <=> markCycle[s].member
             /\ FinalStatus(s)' = IF markCycle[s].member THEN "present" ELSE "absent"]_vars

\* C35: the outcome of a completion is a partition of the enrolled students:
\* nobody is both present and absent, everybody is one of the two, and the
\* counts of a stored session add up to its total_students
C35_OutcomeIsPartition ==
    /\ pc # "idle" =>
          /\ finalPresentIds \cap finalAbsentIds = {}
          /\ finalPresentIds \cup finalAbsentIds = Enrolled
    /\ \A i \in 1..Len(sessions) :
          sessions[i].present_count + sessions[i].absent_count
             = sessions[i].total_students

\* the session of a completion with one student present and one absent is
\* stored
C35_Witness ==
    /\ pc = "insertPresent"
    /\ Len(sessions) = 1
    /\ sessions[1].present_count = 1
    /\ sessions[1].absent_count = 1

\* the enrolled students whose status is present as things stand
EffectivePresent == {s \in Enrolled : FinalStatus(s) = "present"}

\* C36: while the camera view is shown, the present total of the manual
\* dialog and the two counts of the Complete Scan button taken together are
\* the number of students whose status is present, each counted once
C36_PresentCountedOnce ==
    (mounted /\ isScanning /\ ~isCompleting) =>
        /\ dialogPresentTotal = Cardinality(EffectivePresent)
        /\ completeLabel.auto + completeLabel.manual = Cardinality(EffectivePresent)

\* no two of these faces have the same id
DistinctIds(faces) ==
    \A i, j \in 1..Len(faces) : i # j => faces[i].id # faces[j].id

\* C37: the faces on the screen have distinct ids, and so have the tracked
\* faces: of two faces of a frame that match the same student at most one
\* takes the student's id
C37_DistinctFaceIds ==
    /\ DistinctIds(detectedFaces)
    /\ DistinctIds([i \in 1..Len(trackedFaces) |-> trackedFaces[i].face])

\* the timer of a camera switch calls startScanning
RestartStep == restartTimers' = restartTimers - 1

\* C38: a camera switch releases, then acquires with the new facing mode:
\* when the timer of the switch requests the camera, no stream is live, and
\* the request asks for the facing mode that is selected
C38_SwitchReacquiresNewFacing ==
    [][RestartStep =>
         /\ liveStreams = 0
         /\ requestedFacing' = currentCameraFacing]_vars

\* C39: the complete step is shown only for an enrollment whose student row
\* and enrollment row were both created by a run that ended well, whatever
\* timers and stale callbacks were pending
C39_CompleteOnlyAfterPersist ==
    currentStep = "complete" =>
        /\ enrollmentCompleted
        /\ studentKey \in studentRows
        /\ studentKey \in enrollmentRows

\* the complete step was reached while a countdown interval of the position
\* step or a timer of a capture was still pending
C39_Witness ==
    /\ currentStep = "complete"
    /\ studentKey \in enrollmentRows
    /\ intervals > 0 \/ nextTimers["capture"] > 0 \/ nextTimers["angles"] > 0

====
